---- MODULE Spec2Model ----
(***************************************************************************)
(* Model of the query-range middleware core of pkg/querier/queryrange:     *)
(*   - limitedRoundTripper (limits.go:221-340): the bounded-parallelism    *)
(*     round-tripper, its workers, the handler adapter and rt.do;          *)
(*   - seriesLimiter (limits.go:158-219): the per-request series limiter.  *)
(*                                                                         *)
(* Go's select is modelled as the runtime executes it: a goroutine that    *)
(* reaches a select takes one of the cases that are ready (any of them     *)
(* when several are), and parks when none is; a parked goroutine is woken  *)
(* by the first operation that makes one of its cases ready (a rendezvous  *)
(* partner arriving, a value sent on its reply channel, its Done channel   *)
(* being closed).                                                          *)
(***************************************************************************)
EXTENDS Integers, Sequences, FiniteSets, TLC

\* ---------------------------------------------------------------- bounds
\* The values of MaxQueryParallelism(tenant) the limits are drawn from.
Parallelisms == (0 - 1)..2
\* Number of logical sub-requests the composed middleware may emit.
NumSubs == 2

\* Largest MaxQuerySeries the limiter is built with.
MaxSeriesLimit == 1
\* Largest number of series in the result of one metric sub-response.
MaxResultLen == 1
\* Number of seriesLimiter.Do calls (sub-requests passing through a limiter).
NumCalls == 2
\* The outer requests, each wrapping a limiter of its own.
Limiters == {1, 2}
\* Largest MaxQueryParallelism(tenant) the liveness checks draw from.
LiveParallelism == 1

\* Latest instant of the clock and of the request timestamps, in clock ticks.
MaxTs == 5
\* Largest MaxQueryLookback and MaxQueryLength, in clock ticks.
MaxLimitDur == 2

\* Latest (and, negated, earliest) request start of the cache-key calls, in
\* milliseconds.
MaxStart == 2
\* Largest split duration of the cache-key calls, in clock ticks.
MaxSplit == 4

\* Largest limit of the log-stream responses that are merged.
MaxMergeLimit == 3

\* ---------------------------------------------------------- round-tripper
VARIABLES
    parallelism,    \* rt.limits.MaxQueryParallelism(userid)  (limits.go:284)
    pc,             \* position of RoundTrip                   (limits.go:259-321)
    rtRet,          \* what RoundTrip returned to its caller
    handlerRet,     \* what the composed middleware returned   (limits.go:302-316)
    pending,        \* the values of the return statement RoundTrip executed
    scopeDone,      \* Done() of ctx = WithCancel(r.Context()) is closed (limits.go:263)
    wstate,         \* worker -> Idle | Dispatching | Exiting  (limits.go:288-299)
    wpc,            \* worker -> position inside the loop
    wwork,          \* worker -> the work item it received
    wres,           \* worker -> the result of rt.do
    cst,            \* sub-request -> position of its adapter call (limits.go:303-315)
    cret,           \* sub-request -> what its adapter call returned
    fired,          \* sub-request -> its ctx.Done() is closed
    resultCh        \* reply channel -> buffered results       (limits.go:255)

rtVars == <<parallelism, pc, rtRet, handlerRet, pending, scopeDone,
            wstate, wpc, wwork, wres, cst, cret, fired, resultCh>>

\* --------------------------------------------------------- series limiter
VARIABLES
    maxSeries,      \* int(slm): the limit every Wrap copies     (limits.go:179)
    hashes,         \* limiter -> sl.hashes, one per Wrap        (limits.go:178)
    dpc,            \* Do call -> position inside seriesLimiter.Do (limits.go:185-213)
    dlim,           \* Do call -> the limiter it runs on
    dres,           \* Do call -> what sl.next.Do returned       (limits.go:190)
    dret,           \* Do call -> what Do returned
    dsize           \* Do call -> len(sl.hashes) when it released the lock (limits.go:208)

slVars == <<maxSeries, hashes, dpc, dlim, dres, dret, dsize>>

\* ------------------------------------------------------ limits middleware
VARIABLES
    lmIn,           \* the call of limitsMiddleware.Do: context, limits, clock, request
    lmpc,           \* position of the call                     (limits.go:110-156)
    lmRet,          \* what Do returned
    lmNext          \* the requests l.next.Do was called with   (limits.go:155)

lmVars == <<lmIn, lmpc, lmRet, lmNext>>

\* -------------------------------------------------------------- cache key
VARIABLES
    ckIn,           \* call -> limits, userID and request of GenerateCacheKey
    ckOut           \* call -> the key it returned, or its panic (limits.go:87-93)

ckVars == <<ckIn, ckOut>>

\* ----------------------------------------------------------------- merger
VARIABLES
    mgIn,           \* the responses MergeResponse is called with (codec.go:546)
    mgOut           \* what MergeResponse returned

mgVars == <<mgIn, mgOut>>

\* ------------------------------------------------------------------ codec
VARIABLES
    cdReq,          \* a typed request (codec.go:38-186)
    cdHttp,         \* what EncodeRequest made of it (codec.go:259-361)
    cdDec,          \* what DecodeRequest made of cdHttp (codec.go:197-257)
    cdNew,          \* the call of WithStartEnd, WithQuery or WithShards on
                    \* cdReq, and what it returned
    cdResp,         \* a response of the downstream
    cdTyped         \* what DecodeResponse made of cdResp (codec.go:367-478)

cdVars == <<cdReq, cdHttp, cdDec, cdNew, cdResp, cdTyped>>

vars == <<rtVars, slVars, lmVars, ckVars, mgVars, cdVars>>

\* what the steps of each component leave alone
notRT == <<slVars, lmVars, ckVars, mgVars, cdVars>>
notSL == <<rtVars, lmVars, ckVars, mgVars, cdVars>>
notLM == <<rtVars, slVars, ckVars, mgVars, cdVars>>
notCK == <<rtVars, slVars, lmVars, mgVars, cdVars>>
notMG == <<rtVars, slVars, lmVars, ckVars, cdVars>>
notCD == <<rtVars, slVars, lmVars, ckVars, mgVars>>

Subs == 1..NumSubs

None == [kind |-> "none"]

\* ctx.Err() as returned by the adapter (limits.go:308, 314)
CtxErr == [kind |-> "ctxErr"]

\* The for loop of limits.go:286 spawns one goroutine per i in 0..parallelism-1.
SpawnCountOff(p) == p + 1
SpawnCountNone(p) == 0
SpawnCount(p) == IF p > 0 THEN p ELSE 0

\* for { select { ... } }  (limits.go:290): after its reply the worker loops.
WorkerLoopsOnce == FALSE
WorkerLoops == TRUE

\* make(chan result, 1)  (limits.go:255)
ResultCapUnbuffered == Len(<< >>)
ResultCap == 1

\* newWork (limits.go:251-257): every call makes its own reply channel; the
\* channel made by the call for sub-request s is named s.
newWorkShared(ctx, req) == [req |-> req, ctx |-> ctx, result |-> 1]
newWork(ctx, req) == [req |-> req, ctx |-> ctx, result |-> req]

\* case intermediate <- w (limits.go:306): the send of the work item completes
\* once, and the adapter goes on to its second select.
afterSendOffersAgain == "offerParked"
afterSend == "await"

\* The cases of the three select statements.
WorkerCasesNoDone == {"recv"}
WorkerCases == {"recv", "done"}          \* limits.go:291-297
OfferCases == {"send", "done"}           \* limits.go:305-309
AwaitCasesNoDone == {"recv"}
AwaitCases == {"recv", "done"}           \* limits.go:310-315

\* the deferred cancel() has run (limits.go:266)
cancelCalled == pc \in {"wait", "returned"}

Workers == DOMAIN wstate

\* number of workers inside next.RoundTrip (limits.go:333)
InFlight == Cardinality({w \in Workers : wpc[w] = "roundtrip"})

\* Closing the Done channel of the scope wakes every worker parked in select.
WakeWorkers(st) ==
    [w \in DOMAIN st |->
        IF wpc[w] = "parked" /\ "done" \in WorkerCases THEN "Exiting" ELSE st[w]]
WakeWorkersPc(p) ==
    [w \in DOMAIN p |->
        IF p[w] = "parked" /\ "done" \in WorkerCases THEN "done" ELSE p[w]]

RTInit ==
    /\ parallelism \in Parallelisms
    /\ pc = "decode"
    /\ rtRet = None
    /\ handlerRet = None
    /\ pending = None
    /\ scopeDone = FALSE
    /\ wstate = << >>
    /\ wpc = << >>
    /\ wwork = << >>
    /\ wres = << >>
    /\ cst = [s \in Subs |-> "unborn"]
    /\ cret = [s \in Subs |-> None]
    /\ fired = [s \in Subs |-> FALSE]
    /\ resultCh = [s \in Subs |-> << >>]

\* ------------------------------------------------------------ RoundTrip
Ret(resp, err) == [kind |-> "ret", resp |-> resp, err |-> err]

\* A return statement of RoundTrip: its values are fixed, then the deferred
\* function starts with cancel() (limits.go:265-266), and wg.Wait() is next.
ReturnWith(r) ==
    /\ pending' = r
    /\ scopeDone' = TRUE
    /\ wstate' = WakeWorkers(wstate)
    /\ wpc' = WakeWorkersPc(wpc)
    /\ pc' = "wait"

\* return nil, err (limits.go:273) and
\* return nil, httpgrpc.Errorf(http.StatusBadRequest, err.Error()) (limits.go:281)
earlyReturnNoError(err) == Ret("nil", "nil")
earlyReturn(err) == Ret("nil", err)

\* rt.codec.DecodeRequest (limits.go:271-274)
DecodeRequestStep ==
    /\ pc = "decode"
    /\ \/ /\ pc' = "tenant"
          /\ UNCHANGED <<pending, scopeDone, wstate, wpc>>
       \/ ReturnWith(earlyReturn("BadRequest"))
    /\ UNCHANGED notRT
    /\ UNCHANGED <<parallelism, rtRet, handlerRet, wwork, wres, cst, cret, fired,
                   resultCh>>

\* tenant.TenantID (limits.go:279-282)
TenantStep ==
    /\ pc = "tenant"
    /\ \/ /\ pc' = "spawn"
          /\ UNCHANGED <<pending, scopeDone, wstate, wpc>>
       \/ ReturnWith(earlyReturn("BadRequest"))
    /\ UNCHANGED notRT
    /\ UNCHANGED <<parallelism, rtRet, handlerRet, wwork, wres, cst, cret, fired,
                   resultCh>>

\* The spawn loop (limits.go:284-300); every goroutine starts at its select.
SpawnWorkers ==
    /\ pc = "spawn"
    /\ pc' = "handler"
    /\ wstate' = [w \in 1..SpawnCount(parallelism) |-> "Idle"]
    /\ wpc' = [w \in 1..SpawnCount(parallelism) |-> "select"]
    /\ wwork' = [w \in 1..SpawnCount(parallelism) |-> None]
    /\ wres' = [w \in 1..SpawnCount(parallelism) |-> None]
    /\ UNCHANGED notRT
    /\ UNCHANGED <<parallelism, rtRet, handlerRet, pending, scopeDone, cst, cret, fired, resultCh>>

\* The error the composed middleware can hand back to RoundTrip.
HandlerErrors == {"HandlerErr"}

\* What the composed middleware can return.
HandlerReturns ==
    {[kind |-> "response"]} \cup {[kind |-> "error", err |-> e] : e \in HandlerErrors}

\* if err != nil { return nil, err }; return rt.codec.EncodeResponse(...)
\* (limits.go:317-320): the possible values of the return statement.
ReturnValuesEncodeAlways(h) ==
    {Ret("HTTPResponse", "nil"), Ret("nil", "EncodeResponse")}
ReturnValues(h) ==
    IF h.kind = "error"
    THEN {Ret("nil", h.err)}
    ELSE {Ret("HTTPResponse", "nil"), Ret("nil", "EncodeResponse")}

\* rt.middleware.Wrap(...).Do(ctx, request) returns and RoundTrip runs to its
\* return statement (limits.go:302-320).  The middleware is an external
\* collaborator: it may return at any time, whatever its sub-requests do.
HandlerReturn ==
    /\ pc = "handler"
    /\ \E h \in HandlerReturns :
          /\ handlerRet' = h
          /\ \E r \in ReturnValues(h) : ReturnWith(r)
    /\ UNCHANGED notRT
    /\ UNCHANGED <<parallelism, rtRet, wwork, wres, cst, cret, fired, resultCh>>

\* wg.Wait()  (limits.go:267)
WaitDoneAlways(st) == TRUE
WaitDone(st) == \A w \in DOMAIN st : st[w] = "Exiting"

\* deferred wg.Wait() and the return to the caller (limits.go:267-268)
WaitAndReturn ==
    /\ pc = "wait"
    /\ WaitDone(wstate)
    /\ pc' = "returned"
    /\ rtRet' = pending
    /\ UNCHANGED notRT
    /\ UNCHANGED <<parallelism, handlerRet, pending, scopeDone,
                   wstate, wpc, wwork, wres, cst, cret, fired, resultCh>>

\* The caller of RoundTrip cancels r.Context() (or its deadline passes).  Once
\* cancel() has run the scope is done already and this changes nothing.
OuterCancel ==
    /\ ~scopeDone
    /\ scopeDone' = TRUE
    /\ wstate' = WakeWorkers(wstate)
    /\ wpc' = WakeWorkersPc(wpc)
    /\ UNCHANGED notRT
    /\ UNCHANGED <<parallelism, pc, rtRet, handlerRet, pending, wwork, wres, cst,
                   cret, fired, resultCh>>

\* --------------------------------------------------------------- workers
\* case w := <-intermediate (limits.go:292) taken by worker w from the parked
\* sender s; case <-ctx.Done() (limits.go:295); or park in the select.
WorkerSelect(w) ==
    /\ w \in Workers
    /\ wpc[w] = "select"
    /\ \/ \E s \in Subs :
            /\ "recv" \in WorkerCases
            /\ cst[s] = "offerParked"
            /\ cst' = [cst EXCEPT ![s] = afterSend]
            /\ wstate' = [wstate EXCEPT ![w] = "Dispatching"]
            /\ wpc' = [wpc EXCEPT ![w] = "do"]
            /\ wwork' = [wwork EXCEPT ![w] = newWork(s, s)]
       \/ /\ "done" \in WorkerCases
          /\ scopeDone
          /\ wstate' = [wstate EXCEPT ![w] = "Exiting"]
          /\ wpc' = [wpc EXCEPT ![w] = "done"]
          /\ UNCHANGED <<cst, wwork>>
       \/ /\ ~("recv" \in WorkerCases /\ \E s \in Subs : cst[s] = "offerParked")
          /\ ~("done" \in WorkerCases /\ scopeDone)
          /\ wpc' = [wpc EXCEPT ![w] = "parked"]
          /\ UNCHANGED <<cst, wstate, wwork>>
    /\ UNCHANGED notRT
    /\ UNCHANGED <<parallelism, pc, rtRet, handlerRet, pending, scopeDone, wres, cret, fired, resultCh>>

Result(req, val) == [kind |-> "result", req |-> req, val |-> val]

\* rt.do up to the transport call (limits.go:323-333): EncodeRequest or
\* InjectOrgIDIntoHTTPRequest fails with an error, else next.RoundTrip is entered.
WorkerDo(w) ==
    /\ w \in Workers
    /\ wpc[w] = "do"
    /\ \/ /\ wres' = [wres EXCEPT ![w] = Result(wwork[w].req, "Error")]
          /\ wpc' = [wpc EXCEPT ![w] = "reply"]
       \/ /\ wpc' = [wpc EXCEPT ![w] = "roundtrip"]
          /\ UNCHANGED wres
    /\ UNCHANGED notRT
    /\ UNCHANGED <<parallelism, pc, rtRet, handlerRet, pending, scopeDone, wstate, wwork, cst, cret, fired, resultCh>>

\* next.RoundTrip returns (limits.go:333-339): a transport error, or the
\* response is decoded into a typed response or into a decode/upstream error.
WorkerRoundTripReturn(w) ==
    /\ w \in Workers
    /\ wpc[w] = "roundtrip"
    /\ \E v \in {"Error", "Response"} :
            wres' = [wres EXCEPT ![w] = Result(wwork[w].req, v)]
    /\ wpc' = [wpc EXCEPT ![w] = "reply"]
    /\ UNCHANGED notRT
    /\ UNCHANGED <<parallelism, pc, rtRet, handlerRet, pending, scopeDone, wstate, wwork, cst, cret, fired, resultCh>>

\* the adapter calls parked in their second select on reply channel ch
ParkedReceivers(ch) ==
    {s \in Subs : cst[s] = "awaitParked" /\ newWork(s, s).result = ch}

\* w.result <- result{...}  (limits.go:294): handed to a parked receiver, or
\* buffered when the channel has room; the worker then loops to its select.
WorkerReply(w) ==
    /\ w \in Workers
    /\ wpc[w] = "reply"
    /\ LET ch == wwork[w].result IN
       \/ \E s \in ParkedReceivers(ch) :
            /\ "recv" \in AwaitCases
            /\ cst' = [cst EXCEPT ![s] = "returned"]
            /\ cret' = [cret EXCEPT ![s] = wres[w]]
            /\ UNCHANGED resultCh
       \/ /\ ~("recv" \in AwaitCases /\ ParkedReceivers(ch) # {})
          /\ Len(resultCh[ch]) < ResultCap
          /\ resultCh' = [resultCh EXCEPT ![ch] = Append(@, wres[w])]
          /\ UNCHANGED <<cst, cret>>
    /\ wstate' = [wstate EXCEPT ![w] = IF WorkerLoops THEN "Idle" ELSE "Exiting"]
    /\ wpc' = [wpc EXCEPT ![w] = IF WorkerLoops THEN "select" ELSE "done"]
    /\ wwork' = [wwork EXCEPT ![w] = None]
    /\ wres' = [wres EXCEPT ![w] = None]
    /\ UNCHANGED notRT
    /\ UNCHANGED <<parallelism, pc, rtRet, handlerRet, pending, scopeDone, fired>>

\* ------------------------------------------------------- handler adapter
\* The composed middleware calls the adapter: newWork (limits.go:303-304).
\* Sub-requests are numbered in the order of their calls.  The ctx of a call
\* derives from the scope, so it is born done when the scope is already done.
Emit(s) ==
    /\ pc = "handler" \/ handlerRet # None
    /\ cst[s] = "unborn"
    /\ \A r \in 1..(s - 1) : cst[r] # "unborn"
    /\ cst' = [cst EXCEPT ![s] = "offer"]
    /\ fired' = [fired EXCEPT ![s] = @ \/ scopeDone]
    /\ UNCHANGED notRT
    /\ UNCHANGED <<parallelism, pc, rtRet, handlerRet, pending, scopeDone, wstate, wpc, wwork, wres, cret, resultCh>>

\* first select of the adapter (limits.go:305-309)
CallerOffer(s) ==
    /\ cst[s] = "offer"
    /\ \/ \E w \in Workers :
            /\ "send" \in OfferCases
            /\ wpc[w] = "parked"
            /\ cst' = [cst EXCEPT ![s] = afterSend]
            /\ wstate' = [wstate EXCEPT ![w] = "Dispatching"]
            /\ wpc' = [wpc EXCEPT ![w] = "do"]
            /\ wwork' = [wwork EXCEPT ![w] = newWork(s, s)]
            /\ UNCHANGED cret
       \/ /\ "done" \in OfferCases
          /\ fired[s]
          /\ cst' = [cst EXCEPT ![s] = "returned"]
          /\ cret' = [cret EXCEPT ![s] = CtxErr]
          /\ UNCHANGED <<wstate, wpc, wwork>>
       \/ /\ ~("send" \in OfferCases /\ \E w \in Workers : wpc[w] = "parked")
          /\ ~("done" \in OfferCases /\ fired[s])
          /\ cst' = [cst EXCEPT ![s] = "offerParked"]
          /\ UNCHANGED <<cret, wstate, wpc, wwork>>
    /\ UNCHANGED notRT
    /\ UNCHANGED <<parallelism, pc, rtRet, handlerRet, pending, scopeDone, wres, fired, resultCh>>

\* second select of the adapter (limits.go:310-315)
CallerAwait(s) ==
    /\ cst[s] = "await"
    /\ LET ch == newWork(s, s).result IN
       \/ /\ "recv" \in AwaitCases
          /\ resultCh[ch] # << >>
          /\ cst' = [cst EXCEPT ![s] = "returned"]
          /\ cret' = [cret EXCEPT ![s] = Head(resultCh[ch])]
          /\ resultCh' = [resultCh EXCEPT ![ch] = Tail(@)]
       \/ /\ "done" \in AwaitCases
          /\ fired[s]
          /\ cst' = [cst EXCEPT ![s] = "returned"]
          /\ cret' = [cret EXCEPT ![s] = CtxErr]
          /\ UNCHANGED resultCh
       \/ /\ ~("recv" \in AwaitCases /\ resultCh[ch] # << >>)
          /\ ~("done" \in AwaitCases /\ fired[s])
          /\ cst' = [cst EXCEPT ![s] = "awaitParked"]
          /\ UNCHANGED <<cret, resultCh>>
    /\ UNCHANGED notRT
    /\ UNCHANGED <<parallelism, pc, rtRet, handlerRet, pending, scopeDone, wstate, wpc, wwork, wres, fired>>

\* Closing the Done channel of sub-request s wakes its adapter call when it is
\* parked in a select that has a Done case (limits.go:307, 313).
FireSub(s) ==
    /\ ~fired[s]
    /\ cst[s] \notin {"unborn", "returned"}
    /\ fired' = [fired EXCEPT ![s] = TRUE]
    /\ IF \/ cst[s] = "offerParked" /\ "done" \in OfferCases
          \/ cst[s] = "awaitParked" /\ "done" \in AwaitCases
       THEN /\ cst' = [cst EXCEPT ![s] = "returned"]
            /\ cret' = [cret EXCEPT ![s] = CtxErr]
       ELSE UNCHANGED <<cst, cret>>
    /\ UNCHANGED notRT
    /\ UNCHANGED <<parallelism, pc, rtRet, handlerRet, pending, scopeDone, wstate, wpc, wwork, wres, resultCh>>

\* The cancellation of the scope reaches the derived context of s.
PropagateCancel(s) ==
    /\ scopeDone
    /\ FireSub(s)

\* The middleware cancels the context it derived for s (a deadline, or a
\* sibling's failure) while the scope is live.
MiddlewareCancel(s) ==
    /\ ~scopeDone
    /\ pc = "handler"
    /\ FireSub(s)

\* every step but the call of the adapter
RTSteps ==
    \/ DecodeRequestStep
    \/ TenantStep
    \/ SpawnWorkers
    \/ HandlerReturn
    \/ WaitAndReturn
    \/ OuterCancel
    \/ \E w \in Workers : WorkerSelect(w)
    \/ \E w \in Workers : WorkerDo(w)
    \/ \E w \in Workers : WorkerRoundTripReturn(w)
    \/ \E w \in Workers : WorkerReply(w)
    \/ \E s \in Subs : CallerOffer(s)
    \/ \E s \in Subs : CallerAwait(s)
    \/ \E s \in Subs : PropagateCancel(s)
    \/ \E s \in Subs : MiddlewareCancel(s)

RTNext ==
    \/ RTSteps
    \/ \E s \in Subs : Emit(s)

\* --------------------------------------------------------- series limiter
Calls == 1..NumCalls

\* The label names the series of the metric responses are built from.
LabelNames == {"a"}

\* A series is its label set (s.Labels, limits.go:204).
Series == SUBSET LabelNames

LabelBit(n) == IF n = "a" THEN 1 ELSE 2

RECURSIVE SumPow2(_)
SumPow2(S) ==
    IF S = {} THEN 0
    ELSE LET l == CHOOSE x \in S : TRUE IN LabelBit(l) + SumPow2(S \ {l})

\* lbs.HashWithoutLabels(sl.buf) (limits.go:205): a 64-bit fingerprint of the
\* whole label set.  The fingerprint of the model is the bit mask of the label
\* set, far below 2^64; collisions of the 64-bit hash are not modelled.
Hash(lbs) == SumPow2(lbs)

RECURSIVE SeqsUpTo(_, _)
SeqsUpTo(S, n) ==
    IF n = 0 THEN {<< >>}
    ELSE LET shorter == SeqsUpTo(S, n - 1) IN
         shorter \cup {Append(q, x) : q \in {r \in shorter : Len(r) = n - 1}, x \in S}

\* What sl.next.Do can return (limits.go:190-200): an error, a response that
\* is not a *LokiPromResponse, a LokiPromResponse without payload, or a
\* LokiPromResponse whose Data.Result lists series.
NextResults ==
    {[kind |-> "error"], [kind |-> "stream"], [kind |-> "promNil"]} \cup
    {[kind |-> "prom", result |-> r] : r \in SeqsUpTo(Series, MaxResultLen)}

\* httpgrpc.Errorf(http.StatusBadRequest, limitErrTmpl, sl.maxSeries)
TooManySeries == [kind |-> "TooManySeries"]

\* isLimitReached (limits.go:215-219)
isLimitReachedInclusive(h, max) == Cardinality(h) >= max
isLimitReached(h, max) == Cardinality(h) > max

\* the insertion loop under sl.rw.Lock() (limits.go:201-208)
InsertSeriesReplace(h, result) == {Hash(result[i]) : i \in 1..Len(result)}
InsertSeries(h, result) == h \cup {Hash(result[i]) : i \in 1..Len(result)}

\* make(map[uint64]struct{}) of Wrap (limits.go:178)
makeHashesInherited(hs) == IF hs = << >> THEN {} ELSE hs[Len(hs)]
makeHashes(hs) == {}

SLIdle ==
    /\ maxSeries = 0
    /\ hashes = << >>
    /\ dpc = [d \in Calls |-> "idle"]
    /\ dlim = [d \in Calls |-> 0]
    /\ dres = [d \in Calls |-> None]
    /\ dret = [d \in Calls |-> None]
    /\ dsize = [d \in Calls |-> 0]

SLInit ==
    /\ maxSeries \in 0..MaxSeriesLimit
    /\ hashes = << >>
    /\ dpc = [d \in Calls |-> "idle"]
    /\ dlim = [d \in Calls |-> 0]
    /\ dres = [d \in Calls |-> None]
    /\ dret = [d \in Calls |-> None]
    /\ dsize = [d \in Calls |-> 0]

\* seriesLimiterMiddleware.Wrap (limits.go:176-183): a new limiter with an
\* empty set, once per outer request.
Wrap ==
    /\ Len(hashes) < Cardinality(Limiters)
    /\ hashes' = Append(hashes, makeHashes(hashes))
    /\ UNCHANGED <<maxSeries, dpc, dlim, dres, dret, dsize>>
    /\ UNCHANGED notSL

\* A sub-request enters Do of limiter l and runs the pre-check
\* (limits.go:185-189).
PreCheck(d, l) ==
    /\ dpc[d] = "idle"
    /\ l \in DOMAIN hashes
    /\ dlim' = [dlim EXCEPT ![d] = l]
    /\ IF isLimitReached(hashes[l], maxSeries)
       THEN /\ dpc' = [dpc EXCEPT ![d] = "done"]
            /\ dret' = [dret EXCEPT ![d] = [res |-> None, err |-> TooManySeries]]
       ELSE /\ dpc' = [dpc EXCEPT ![d] = "next"]
            /\ UNCHANGED dret
    /\ UNCHANGED <<maxSeries, hashes, dres, dsize>>
    /\ UNCHANGED notSL

\* sl.next.Do returns and the result is classified (limits.go:190-200)
NextReturn(d) ==
    /\ dpc[d] = "next"
    /\ \E r \in NextResults :
          /\ dres' = [dres EXCEPT ![d] = r]
          /\ IF r.kind = "error"
             THEN /\ dpc' = [dpc EXCEPT ![d] = "done"]
                  /\ dret' = [dret EXCEPT ![d] = [res |-> None, err |-> r]]
             ELSE IF r.kind \in {"stream", "promNil"}
             THEN /\ dpc' = [dpc EXCEPT ![d] = "done"]
                  /\ dret' = [dret EXCEPT ![d] = [res |-> r, err |-> None]]
             ELSE /\ dpc' = [dpc EXCEPT ![d] = "insert"]
                  /\ UNCHANGED dret
    /\ UNCHANGED <<maxSeries, hashes, dlim, dsize>>
    /\ UNCHANGED notSL

\* Lock, insert the fingerprint of every result series, Unlock (limits.go:201-208)
Insert(d) ==
    /\ dpc[d] = "insert"
    /\ hashes' = [hashes EXCEPT ![dlim[d]] = InsertSeries(@, dres[d].result)]
    /\ dsize' = [dsize EXCEPT ![d] = Cardinality(hashes'[dlim[d]])]
    /\ dpc' = [dpc EXCEPT ![d] = "postcheck"]
    /\ UNCHANGED <<maxSeries, dlim, dres, dret>>
    /\ UNCHANGED notSL

\* The check after the insertion (limits.go:209-212).  isLimitReached reads
\* len(sl.hashes) under sl.rw.RLock(), so it sees the set before or after the
\* whole insertion of another call, never in between.
PostCheck(d) ==
    /\ dpc[d] = "postcheck"
    /\ dpc' = [dpc EXCEPT ![d] = "done"]
    /\ dret' = [dret EXCEPT ![d] =
                  IF isLimitReached(hashes[dlim[d]], maxSeries)
                  THEN [res |-> None, err |-> TooManySeries]
                  ELSE [res |-> dres[d], err |-> None]]
    /\ UNCHANGED <<maxSeries, hashes, dlim, dres, dsize>>
    /\ UNCHANGED notSL

SLNext ==
    \/ Wrap
    \/ \E d \in Calls, l \in Limiters : PreCheck(d, l)
    \/ \E d \in Calls : NextReturn(d)
    \/ \E d \in Calls : Insert(d)
    \/ \E d \in Calls : PostCheck(d)

\* ------------------------------------------------------ limits middleware
\* int64(time.Millisecond) / int64(time.Nanosecond) (codec.go:39): the ticks of
\* the nanosecond clock in one millisecond, scaled down from 1000000.
TicksPerMs == 2

\* Go's integer division truncates towards zero.
GoDiv(a, b) == IF a >= 0 THEN a \div b ELSE 0 - ((0 - a) \div b)

\* util.TimeToMillis (limits.go:122): t.UnixNano() / 1e6
TimeToMillis(t) == GoDiv(t, TicksPerMs)

\* GetStart, GetEnd (codec.go:38-44, 83-89, 121-127, 160-166)
GetStart(r) == GoDiv(r.StartTs, TicksPerMs)
GetEnd(r) == GoDiv(r.EndTs, TicksPerMs)

\* WithStartEnd (codec.go:46-51, 91-95, 129-134, 168-173); an instant request
\* has the one timestamp TimeTs, which is set to s.
WithStartEnd(r, s, e) ==
    IF r.type = "instant"
    THEN [r EXCEPT !.StartTs = s * TicksPerMs, !.EndTs = s * TicksPerMs]
    ELSE [r EXCEPT !.StartTs = s * TicksPerMs, !.EndTs = e * TicksPerMs]

\* Query strings and what logql.ParseExpr makes of them (codec.go:891-897).
Queries == {"{a=1}", "rate({a=1}[1m])", "{"}
ParseExpr(q) ==
    IF q = "{a=1}" THEN "log"
    ELSE IF q = "rate({a=1}[1m])" THEN "sample"
    ELSE "invalid"

Directions == {"FORWARD", "BACKWARD"}

Timestamps == 0..MaxTs

\* The requests of the four variants (LokiRequest, LokiInstantRequest,
\* LokiSeriesRequest, LokiLabelNamesRequest).
RangeRequests ==
    [type : {"range"}, StartTs : Timestamps, EndTs : Timestamps,
     Query : Queries, Direction : Directions, Limit : 0..1]
InstantRequests ==
    {[type |-> "instant", StartTs |-> ts, EndTs |-> ts,
      Query |-> q, Direction |-> "FORWARD", Limit |-> 0] :
        ts \in Timestamps, q \in Queries}
SeriesRequests ==
    [type : {"series"}, StartTs : Timestamps, EndTs : Timestamps,
     Query : {""}, Direction : {"FORWARD"}, Limit : {0}]
LabelNamesRequests ==
    [type : {"labels"}, StartTs : Timestamps, EndTs : Timestamps,
     Query : {""}, Direction : {"FORWARD"}, Limit : {0}]
Requests == RangeRequests \cup InstantRequests \cup SeriesRequests \cup LabelNamesRequests

BadRequest(msg) == [kind |-> "BadRequest", msg |-> msg]

\* NewEmptyResponse (codec.go:867-912)
NewEmptyResponseStreams(r) ==
    IF r.type = "series"
    THEN [res |-> [variant |-> "LokiSeriesResponse", Status |-> "success"], err |-> None]
    ELSE IF r.type = "labels"
    THEN [res |-> [variant |-> "LokiLabelNamesResponse", Status |-> "success"], err |-> None]
    ELSE IF ParseExpr(r.Query) = "invalid"
    THEN [res |-> None, err |-> BadRequest("parse")]
    ELSE [res |-> [variant |-> "LokiResponse", Status |-> "success",
                   Direction |-> r.Direction, Limit |-> r.Limit,
                   ResultType |-> "streams"],
          err |-> None]
NewEmptyResponse(r) ==
    IF r.type = "series"
    THEN [res |-> [variant |-> "LokiSeriesResponse", Status |-> "success"], err |-> None]
    ELSE IF r.type = "labels"
    THEN [res |-> [variant |-> "LokiLabelNamesResponse", Status |-> "success"], err |-> None]
    ELSE IF r.type = "instant"
    THEN [res |-> [variant |-> "LokiPromResponse", Status |-> "success",
                   ResultType |-> "vector"],
          err |-> None]
    ELSE IF ParseExpr(r.Query) = "invalid"
    THEN [res |-> None, err |-> BadRequest("parse")]
    ELSE IF ParseExpr(r.Query) = "sample"
    THEN [res |-> [variant |-> "LokiPromResponse", Status |-> "success",
                   ResultType |-> "matrix"],
          err |-> None]
    ELSE [res |-> [variant |-> "LokiResponse", Status |-> "success",
                   Direction |-> r.Direction, Limit |-> r.Limit,
                   ResultType |-> "streams"],
          err |-> None]

\* err != nil of tenant.TenantIDs(ctx) (limits.go:114-117)
tenantErrIgnored(ok) == FALSE
tenantErr(ok) == ~ok

\* r.GetEnd() < minStartTime (limits.go:124)
outsideLookbackInclusive(e, minStartTime) == e <= minStartTime
outsideLookback(e, minStartTime) == e < minStartTime

\* r = r.WithStartEnd(minStartTime, r.GetEnd()) (limits.go:143)
clampStartAndEnd(r, minStartTime) == WithStartEnd(r, minStartTime, minStartTime)
clampStart(r, minStartTime) == WithStartEnd(r, minStartTime, GetEnd(r))

\* queryLen > maxQueryLength (limits.go:149-150); queryLen is a whole number
\* of milliseconds, maxQueryLength a duration of the nanosecond clock
queryTooLongInclusive(r, maxQueryLength) ==
    (GetEnd(r) - GetStart(r)) * TicksPerMs >= maxQueryLength
queryTooLong(r, maxQueryLength) ==
    (GetEnd(r) - GetStart(r)) * TicksPerMs > maxQueryLength

ErrQueryTooLong == BadRequest("QueryTooLong")

\* The request after the lookback clamp (limits.go:136-144).
Clamped(in) ==
    LET minStartTime == TimeToMillis(in.now - in.maxQueryLookback) IN
    IF in.maxQueryLookback > 0 /\ GetStart(in.req) < minStartTime
    THEN clampStart(in.req, minStartTime)
    ELSE in.req

\* The request the length check reads: r as the clamp left it
\* (limits.go:143, 149).
lengthCheckedReceived(in) == in.req
lengthChecked(in) == Clamped(in)

\* limitsMiddleware.Do up to the call of the next handler (limits.go:110-155):
\* what it returns by itself, or "next" and the request it passes on.
LimitsDo(in) ==
    LET minStartTime == TimeToMillis(in.now - in.maxQueryLookback) IN
    IF tenantErr(in.tenantOK)
    THEN [kind |-> "return", ret |-> [res |-> None, err |-> BadRequest("no org id")]]
    ELSE IF in.maxQueryLookback > 0 /\ outsideLookback(GetEnd(in.req), minStartTime)
    THEN [kind |-> "return", ret |-> NewEmptyResponse(in.req)]
    ELSE IF in.maxQueryLength > 0 /\ queryTooLong(lengthChecked(in), in.maxQueryLength)
    THEN [kind |-> "return", ret |-> [res |-> None, err |-> ErrQueryTooLong]]
    ELSE [kind |-> "next", req |-> Clamped(in)]

\* What l.next.Do returns for a request.
NextDoReturns(r) ==
    {[res |-> [variant |-> "fromNext", req |-> r], err |-> None],
     [res |-> None, err |-> [kind |-> "nextErr"]]}

LMInputs ==
    [tenantOK : BOOLEAN, maxQueryLookback : 0..MaxLimitDur,
     maxQueryLength : 0..MaxLimitDur, now : Timestamps, req : Requests]

LMIdle ==
    /\ lmIn = None
    /\ lmpc = "idle"
    /\ lmRet = None
    /\ lmNext = << >>

LMInit ==
    /\ lmIn \in LMInputs
    /\ lmpc = "call"
    /\ lmRet = None
    /\ lmNext = << >>

\* One call of limitsMiddleware.Do that returns by itself (limits.go:110-153).
LimitsReturn ==
    /\ lmpc = "call"
    /\ LimitsDo(lmIn).kind = "return"
    /\ lmRet' = LimitsDo(lmIn).ret
    /\ lmpc' = "done"
    /\ UNCHANGED <<lmIn, lmNext>>
    /\ UNCHANGED notLM

\* One call of limitsMiddleware.Do that delegates (limits.go:155).
LimitsDelegate ==
    /\ lmpc = "call"
    /\ LimitsDo(lmIn).kind = "next"
    /\ lmNext' = Append(lmNext, LimitsDo(lmIn).req)
    /\ \E ret \in NextDoReturns(LimitsDo(lmIn).req) : lmRet' = ret
    /\ lmpc' = "done"
    /\ UNCHANGED lmIn
    /\ UNCHANGED notLM

LMNext ==
    \/ LimitsReturn
    \/ LimitsDelegate

\* -------------------------------------------------------------- cache key
\* limits.QuerySplitDuration (limits.go:47-56); tenantSplit is what the
\* embedded Limits return for the user.
QuerySplitDuration(l, user) ==
    IF ~l.overrides THEN l.splitDuration
    ELSE IF l.tenantSplit = 0 THEN l.splitDuration
    ELSE l.tenantSplit

GetQuery(r) == r.Query
GetStep(r) == r.Step

\* fmt.Sprintf("%s:%s:%d:%d:%d", ...) (limits.go:92); a time.Duration is
\* printed by %d as its count of clock ticks
SprintfNoSplit(userID, query, step, currentInterval, split) ==
    userID \o ":" \o query \o ":" \o ToString(step) \o ":" \o ToString(currentInterval)
Sprintf(userID, query, step, currentInterval, split) ==
    userID \o ":" \o query \o ":" \o ToString(step) \o ":" \o
        ToString(currentInterval) \o ":" \o ToString(split)

Panic == [kind |-> "panic"]

\* cacheKeyLimits.GenerateCacheKey (limits.go:87-93); the integer division by
\* int64(split/time.Millisecond) panics when that is zero
GenerateCacheKey(l, userID, r) ==
    LET split == QuerySplitDuration(l, userID)
        splitMs == GoDiv(split, TicksPerMs)
    IN  IF splitMs = 0 THEN Panic
        ELSE [kind |-> "key",
              key |-> Sprintf(userID, GetQuery(r), GetStep(r),
                              GoDiv(GetStart(r), splitMs), split)]

\* Tenants and queries of the cache-key calls; both may hold a colon.
CKTenants == {"a", "a:b"}
CKQueries == {"c", "b:c"}

CKRequest(q, step, startMs) ==
    [type |-> "range", StartTs |-> startMs * TicksPerMs, EndTs |-> startMs * TicksPerMs,
     Query |-> q, Step |-> step]

CKRequests ==
    {CKRequest(q, step, s) : q \in CKQueries, step \in 0..1, s \in (0 - MaxStart)..MaxStart}

\* WithSplitByLimits (limits.go:73-78): a static split
StaticLimits == [overrides : {FALSE}, splitDuration : 0..MaxSplit, tenantSplit : {0}]
\* WithDefaultLimits (limits.go:59-70): per-tenant split with a default
DefaultLimits == [overrides : {TRUE}, splitDuration : {0, TicksPerMs}, tenantSplit : 0..MaxSplit]

\* tenant "t", query {a=1}, step 15000 ms, start 60000 ms, split 30 s and 60 s
ScenarioInputs ==
    {[l |-> [overrides |-> FALSE, splitDuration |-> s * TicksPerMs, tenantSplit |-> 0],
      userID |-> "t", r |-> CKRequest("{a=1}", 15000, 60000)] : s \in {30000, 60000}}

CKInputs ==
    [l : StaticLimits \cup DefaultLimits, userID : CKTenants, r : CKRequests]
        \cup ScenarioInputs

CKPairInputs == [l : StaticLimits, userID : CKTenants, r : CKRequests]

CKIdle ==
    /\ ckIn = << >>
    /\ ckOut = << >>

\* one call
CKInit ==
    /\ ckIn \in {<<i>> : i \in CKInputs}
    /\ ckOut = <<None>>

\* two calls
CKInit2 ==
    /\ ckIn \in {<<i, j>> : i, j \in CKPairInputs}
    /\ ckOut = <<None, None>>

GenerateCacheKeyCall(c) ==
    /\ c \in DOMAIN ckIn
    /\ ckOut[c] = None
    /\ ckOut' = [ckOut EXCEPT ![c] = GenerateCacheKey(ckIn[c].l, ckIn[c].userID, ckIn[c].r)]
    /\ UNCHANGED ckIn
    /\ UNCHANGED notCK

CKNext == \E c \in 1..2 : GenerateCacheKeyCall(c)

\* ----------------------------------------------------------------- merger
\* The label strings of the streams, in the order of sort.Strings.
LabelOrder == <<"a", "b">>
StreamLabels == {LabelOrder[i] : i \in DOMAIN LabelOrder}

\* A run is the timestamps of the Entries of one stream, in their order.
EntryTimes == {1, 2}
Runs == {<< >>} \cup {<<x>> : x \in EntryTimes} \cup {<<x, y>> : x, y \in EntryTimes}
Streams == [Labels : StreamLabels, Entries : Runs]
StreamLists == {<< >>} \cup {<<s>> : s \in Streams} \cup {<<s, u>> : s, u \in Streams}

\* x comes before y in the direction
Before(x, y, direction) == IF direction = "BACKWARD" THEN x > y ELSE x < y

\* The responses of a split query: every stream is sorted in the direction,
\* the streams of one response have distinct labels, and the time ranges of
\* the streams of one label in two responses share at most an end point.
SplitTimes == 1..4
SortedRuns(direction) ==
    {<< >>} \cup {<<x>> : x \in SplitTimes}
            \cup UNION {{<<x, y>> : y \in {z \in SplitTimes : ~Before(z, x, direction)}} :
                            x \in SplitTimes}

\* the first label has the longer streams
SplitRunLen(l) == IF l = LabelOrder[1] THEN 2 ELSE 1

SplitStreams(present, runs) ==
    LET ls == SelectSeq(LabelOrder, LAMBDA l : present[l]) IN
    [k \in DOMAIN ls |-> [Labels |-> ls[k], Entries |-> runs[ls[k]]]]

SplitStreamLists(direction) ==
    {SplitStreams(present, runs) :
        present \in [StreamLabels -> BOOLEAN],
        runs \in {f \in [StreamLabels -> SortedRuns(direction)] :
                    \A l \in StreamLabels : Len(f[l]) <= SplitRunLen(l)}}

Apart(r, u, direction) ==
    IF Len(r) = 0 \/ Len(u) = 0 THEN TRUE
    ELSE \/ ~Before(u[1], r[Len(r)], direction)
         \/ ~Before(r[1], u[Len(u)], direction)

NonOverlapping(a, b, direction) ==
    \A i \in DOMAIN a, j \in DOMAIN b :
        a[i].Labels = b[j].Labels => Apart(a[i].Entries, b[j].Entries, direction)

\* An entry is its timestamp and its line; the line of an entry of the inputs
\* tells the response, the stream and the place it stands at.
Entry(t, i, j, p) == [Timestamp |-> t, Line |-> i * 100 + j * 10 + p]

Tagged(i, streams) ==
    [j \in DOMAIN streams |->
        [Labels |-> streams[j].Labels,
         Entries |-> [p \in DOMAIN streams[j].Entries |->
                         Entry(streams[j].Entries[p], i, j, p)]]]

LokiResponse(limit, direction, result) ==
    [variant |-> "LokiResponse", Limit |-> limit, Direction |-> direction,
     ErrorType |-> "", Error |-> "", Result |-> result]

\* The ErrorType and Error a log-stream response can carry; both are empty in
\* a response without error.
ResponseErrors ==
    {[ErrorType |-> "", Error |-> ""],
     [ErrorType |-> "timeout", Error |-> "context deadline exceeded"]}

Failed(r, e) == [r EXCEPT !.ErrorType = e.ErrorType, !.Error = e.Error]

\* total += len(stream.Entries) (codec.go:656)
addTotalOne(total, entries) == total + 1
addTotal(total, entries) == total + Len(entries)

\* The loop over the streams of one response (codec.go:645-658): groups maps
\* a label to its markers, total counts the entries.
RECURSIVE AddStreams(_, _)
AddStreams(streams, acc) ==
    IF streams = << >> THEN acc
    ELSE LET s == Head(streams)
             old == IF s.Labels \in DOMAIN acc.groups THEN acc.groups[s.Labels] ELSE << >>
             groups == [l \in DOMAIN acc.groups \cup {s.Labels} |->
                          IF l = s.Labels THEN Append(old, s.Entries) ELSE acc.groups[l]]
         IN  AddStreams(Tail(streams),
                        [groups |-> groups, total |-> addTotal(acc.total, s.Entries)])

\* if total >= int(limit) { break } (codec.go:661-663)
limitReachedNever(total, limit) == FALSE
limitReached(total, limit) == total >= limit

\* The loop over the responses (codec.go:644-664).
RECURSIVE Ingest(_, _, _)
Ingest(resps, acc, limit) ==
    IF resps = << >> THEN acc
    ELSE LET next == AddStreams(Head(resps).Result, acc) IN
         IF limitReached(next.total, limit) THEN next
         ELSE Ingest(Tail(resps), next, limit)

\* sort.Strings(keys), reversed for BACKWARD (codec.go:666-674)
RECURSIVE Reverse(_)
Reverse(s) == IF s = << >> THEN << >> ELSE Append(Reverse(Tail(s)), Head(s))

SortedKeysAscending(groups, direction) ==
    SelectSeq(LabelOrder, LAMBDA l : l \in DOMAIN groups)
SortedKeys(groups, direction) ==
    LET asc == SelectSeq(LabelOrder, LAMBDA l : l \in DOMAIN groups) IN
    IF direction = "BACKWARD" THEN Reverse(asc) ELSE asc

\* byDir.merge: the k-way merge of the marker runs by timestamp in the
\* direction, the earlier run first on a tie.
RECURSIVE byDirMerge(_, _)
byDirMerge(markers, direction) ==
    LET live == {i \in DOMAIN markers : markers[i] # << >>} IN
    IF live = {} THEN << >>
    ELSE LET i == CHOOSE k \in live :
                    \A j \in live \ {k} :
                        \/ Before(Head(markers[k]).Timestamp,
                                  Head(markers[j]).Timestamp, direction)
                        \/ /\ Head(markers[k]).Timestamp = Head(markers[j]).Timestamp
                           /\ k < j
         IN  <<Head(markers[i])>> \o
                byDirMerge([markers EXCEPT ![i] = Tail(@)], direction)

\* the streams of all keys, in key order (codec.go:677-685, 691-699)
MergedStreams(groups, keys, direction) ==
    [k \in DOMAIN keys |->
        [Labels |-> keys[k], Entries |-> byDirMerge(groups[keys[k]], direction)]]

Rank(l) == CHOOSE i \in DOMAIN LabelOrder : LabelOrder[i] = l

\* heap.Pop of the priority queue: the stream whose first entry comes first in
\* the direction, by timestamp and then label.
PopStream(pq, direction) ==
    CHOOSE i \in DOMAIN pq :
        \A j \in DOMAIN pq \ {i} :
            \/ Before(Head(pq[i].Entries).Timestamp,
                      Head(pq[j].Entries).Timestamp, direction)
            \/ /\ Head(pq[i].Entries).Timestamp = Head(pq[j].Entries).Timestamp
               /\ Before(Rank(pq[i].Labels), Rank(pq[j].Labels), direction)

DropAt(s, i) == [k \in 1..(Len(s) - 1) |-> IF k < i THEN s[k] ELSE s[k + 1]]

\* for i := 0; i < int(limit) && pq.Len() > 0; i++ (codec.go:706-721):
\* resultDict maps a label to the entries popped for it.
popBoundInclusive(i, limit) == i <= limit
popBound(i, limit) == i < limit

RECURSIVE PopLoop(_, _, _, _, _)
PopLoop(pq, i, limit, direction, resultDict) ==
    IF ~(popBound(i, limit) /\ Len(pq) > 0) THEN resultDict
    ELSE LET n == PopStream(pq, direction)
             next == pq[n]
             rest == IF Len(next.Entries) > 1
                     THEN [pq EXCEPT ![n].Entries = Tail(@)]
                     ELSE DropAt(pq, n)
             old == IF next.Labels \in DOMAIN resultDict
                    THEN resultDict[next.Labels] ELSE << >>
             dict == [l \in DOMAIN resultDict \cup {next.Labels} |->
                        IF l = next.Labels THEN Append(old, Head(next.Entries))
                        ELSE resultDict[l]]
         IN  PopLoop(rest, i + 1, limit, direction, dict)

EmptyFunction == [x \in {} |-> << >>]

\* escape hatch, can just return all the streams (codec.go:675-676)
escapeHatchAlways(total, limit) == TRUE
escapeHatch(total, limit) == total <= limit

\* mergeOrderedNonOverlappingStreams (codec.go:639-731)
mergeOrderedNonOverlappingStreams(resps, limit, direction) ==
    LET acc == Ingest(resps, [groups |-> EmptyFunction, total |-> 0], limit)
        keys == SortedKeys(acc.groups, direction)
        all == MergedStreams(acc.groups, keys, direction)
    IN  IF escapeHatch(acc.total, limit) THEN all
        ELSE LET pq == SelectSeq(all, LAMBDA s : Len(s.Entries) > 0)
                 resultDict == PopLoop(pq, 0, limit, direction, EmptyFunction)
                 kept == SelectSeq(keys, LAMBDA k : k \in DOMAIN resultDict)
             IN  [k \in DOMAIN kept |->
                    [Labels |-> kept[k], Entries |-> resultDict[kept[k]]]]

\* The series of a series response: label sets that differ in one label.
SeriesIdentifiers == {[a |-> "1", b |-> v] : v \in {"2", "3", "4"}}

\* SeriesIdentifier.String(), the canonical string form of a series
SeriesString(series) == "{a=" \o series.a \o ",b=" \o series.b \o "}"

\* The names of a label names response.
NameData == {"x", "y", "z"}

ListsOf(S) == {<< >>} \cup {<<x>> : x \in S} \cup {<<x, y>> : x, y \in S}

LokiSeriesResponse(data) ==
    [variant |-> "LokiSeriesResponse", Status |-> "success", Version |-> 1,
     Data |-> data]

LokiLabelNamesResponse(data) ==
    [variant |-> "LokiLabelNamesResponse", Status |-> "success", Version |-> 1,
     Data |-> data]

\* a metric response holds the sample times of its one series
LokiPromResponse(samples) ==
    [variant |-> "LokiPromResponse", Samples |-> samples]

\* any other implementation of queryrange.Response
OtherResponse == [variant |-> "PrometheusResponse"]

\* if _, ok := uniqueSeries[series.String()]; !ok (codec.go:600, 621)
seenNever(key, unique) == FALSE
seen(key, unique) == key \in unique

\* The loops over the Data of the responses (codec.go:597-605, 618-626):
\* acc holds the merged list and the set of the strings seen.
RECURSIVE UniqueSeries(_, _)
UniqueSeries(data, acc) ==
    IF data = << >> THEN acc
    ELSE LET series == Head(data) IN
         UniqueSeries(Tail(data),
            IF seen(SeriesString(series), acc.unique) THEN acc
            ELSE [data |-> Append(acc.data, series),
                  unique |-> acc.unique \cup {SeriesString(series)}])

RECURSIVE UniqueNames(_, _)
UniqueNames(data, acc) ==
    IF data = << >> THEN acc
    ELSE LET labelName == Head(data) IN
         UniqueNames(Tail(data),
            IF seen(labelName, acc.unique) THEN acc
            ELSE [data |-> Append(acc.data, labelName),
                  unique |-> acc.unique \cup {labelName}])

RECURSIVE AllData(_)
AllData(responses) ==
    IF responses = << >> THEN << >>
    ELSE Head(responses).Data \o AllData(Tail(responses))

\* queryrange.PrometheusCodec.MergeResponse: the samples of all responses
PrometheusMerge(responses) ==
    UNION {responses[i].Samples : i \in DOMAIN responses}

\* res.(*LokiResponse) and the like (codec.go:556, 572, 598, 619): a type
\* assertion on a response of another type panics
asserted(responses, variant) ==
    \A i \in DOMAIN responses : responses[i].variant = variant

MergeError(msg) == [res |-> None, err |-> [kind |-> "error", msg |-> msg]]

\* Codec.MergeResponse (codec.go:546-636)
MergeResponse(responses) ==
    IF Len(responses) = 0 THEN MergeError("at least one response")
    ELSE LET first == responses[1] IN
         IF first.variant \notin {"LokiPromResponse", "LokiResponse",
                                  "LokiSeriesResponse", "LokiLabelNamesResponse"}
         THEN MergeError("unknown response")
         ELSE IF ~asserted(responses, first.variant) THEN Panic
         ELSE IF first.variant = "LokiPromResponse"
         THEN [res |-> LokiPromResponse(PrometheusMerge(responses)), err |-> None]
         ELSE IF first.variant = "LokiResponse"
         THEN [res |-> [variant |-> "LokiResponse", Status |-> "success",
                        Direction |-> first.Direction, Limit |-> first.Limit,
                        ErrorType |-> first.ErrorType, Error |-> first.Error,
                        ResultType |-> "streams",
                        Result |-> mergeOrderedNonOverlappingStreams(
                                      responses, first.Limit, first.Direction)],
               err |-> None]
         ELSE IF first.variant = "LokiSeriesResponse"
         THEN [res |-> [variant |-> "LokiSeriesResponse", Status |-> first.Status,
                        Version |-> first.Version,
                        Data |-> UniqueSeries(AllData(responses),
                                     [data |-> << >>, unique |-> {}]).data],
               err |-> None]
         ELSE [res |-> [variant |-> "LokiLabelNamesResponse", Status |-> first.Status,
                        Version |-> first.Version,
                        Data |-> UniqueNames(AllData(responses),
                                     [data |-> << >>, unique |-> {}]).data],
               err |-> None]

\* one response of every type
SomeResponses ==
    {LokiResponse(1, "FORWARD", Tagged(1, <<[Labels |-> "a", Entries |-> <<1>>]>>)),
     LokiSeriesResponse(<<[a |-> "1", b |-> "2"]>>),
     LokiLabelNamesResponse(<<"x">>),
     LokiPromResponse({1}),
     OtherResponse}

MGIdle ==
    /\ mgIn = << >>
    /\ mgOut = None

\* The lists of sub-responses of one request: all carry its limit and
\* direction.
MGInit ==
    /\ \/ \E lim \in 0..MaxMergeLimit, dir \in Directions :
             \/ mgIn = << >>
             \/ \E a \in StreamLists :
                   mgIn = <<LokiResponse(lim, dir, Tagged(1, a))>>
             \/ \E a, b \in StreamLists :
                   mgIn = <<LokiResponse(lim, dir, Tagged(1, a)),
                            LokiResponse(lim, dir, Tagged(2, b))>>
       \/ \E e, f \in ResponseErrors, a, b \in {<< >>, <<[Labels |-> "a", Entries |-> <<1>>]>>} :
             mgIn = <<Failed(LokiResponse(1, "FORWARD", Tagged(1, a)), e),
                      Failed(LokiResponse(1, "FORWARD", Tagged(2, b)), f)>>
       \/ \E a, b \in ListsOf(SeriesIdentifiers) :
             \/ mgIn = <<LokiSeriesResponse(a)>>
             \/ mgIn = <<LokiSeriesResponse(a), LokiSeriesResponse(b)>>
       \/ \E a, b \in ListsOf(NameData) :
             \/ mgIn = <<LokiLabelNamesResponse(a)>>
             \/ mgIn = <<LokiLabelNamesResponse(a), LokiLabelNamesResponse(b)>>
       \/ \E a, b \in SUBSET {1, 2} :
             mgIn = <<LokiPromResponse(a), LokiPromResponse(b)>>
       \/ \E a, b, c \in SomeResponses :
             \/ mgIn = <<a, b>>
             \/ mgIn = <<a, b, c>>
    /\ mgOut = None

\* The sub-responses of one split query, in any order.
MGInitSplit ==
    /\ \E lim \in 0..MaxMergeLimit, dir \in Directions :
          \/ \E a \in SplitStreamLists(dir) :
                mgIn = <<LokiResponse(lim, dir, Tagged(1, a))>>
          \/ \E a, b \in SplitStreamLists(dir) :
                /\ NonOverlapping(a, b, dir)
                /\ mgIn = <<LokiResponse(lim, dir, Tagged(1, a)),
                            LokiResponse(lim, dir, Tagged(2, b))>>
    /\ mgOut = None

MergeResponseCall ==
    /\ mgOut = None
    /\ mgOut' = MergeResponse(mgIn)
    /\ UNCHANGED mgIn
    /\ UNCHANGED notMG

MGNext == MergeResponseCall

\* ------------------------------------------------------------------ codec
\* The canonical paths (codec.go:281, 304, 322, 346) and the legacy ones.
RangePath == "/loki/api/v1/query_range"
InstantPath == "/loki/api/v1/query"
SeriesPath == "/loki/api/v1/series"
LabelsPath == "/loki/api/v1/labels"
LegacyRangePath == "/api/prom/query_range"
LegacyInstantPath == "/api/prom/query"

\* getOperation: the operation of a path, by its suffix
getOperation(path) ==
    IF path \in {RangePath, LegacyRangePath} THEN "query_range"
    ELSE IF path \in {InstantPath, LegacyInstantPath} THEN "query"
    ELSE IF path = SeriesPath THEN "series"
    ELSE IF path = LabelsPath THEN "labels"
    ELSE "unknown"

\* loghttp.GetVersion: the wire version of a path
GetVersion(path) ==
    IF path \in {LegacyRangePath, LegacyInstantPath} THEN "legacy" ELSE "v1"

\* The typed requests. A field a variant does not have holds its zero value;
\* an instant request holds its TimeTs in StartTs and EndTs.
MaxCodecTs == 3
MaxStep == 2
CodecTimes == 0..MaxCodecTs
ShardLists == {<< >>, <<"0_of_2">>, <<"0_of_2", "1_of_2">>}
MatchLists == {<<"{a=1}">>, <<"{a=1}", "{b=2}">>}

LokiRequest(path, query, s, e, step, limit, direction, shards) ==
    [type |-> "range", Path |-> path, Query |-> query, StartTs |-> s,
     EndTs |-> e, Step |-> step, Limit |-> limit, Direction |-> direction,
     Shards |-> shards, Match |-> << >>]

LokiInstantRequest(path, query, ts, limit, direction, shards) ==
    [type |-> "instant", Path |-> path, Query |-> query, StartTs |-> ts,
     EndTs |-> ts, Step |-> 0, Limit |-> limit, Direction |-> direction,
     Shards |-> shards, Match |-> << >>]

LokiSeriesRequest(path, match, s, e, shards) ==
    [type |-> "series", Path |-> path, Query |-> "", StartTs |-> s,
     EndTs |-> e, Step |-> 0, Limit |-> 0, Direction |-> "FORWARD",
     Shards |-> shards, Match |-> match]

LokiLabelNamesRequest(path, s, e) ==
    [type |-> "labels", Path |-> path, Query |-> "", StartTs |-> s,
     EndTs |-> e, Step |-> 0, Limit |-> 0, Direction |-> "FORWARD",
     Shards |-> << >>, Match |-> << >>]

\* WithQuery (codec.go:53-57, 97-101, 136-139, 175-178): a series request and
\* a label names request have no query.
WithQuery(r, query) ==
    IF r.type \in {"range", "instant"} THEN [r EXCEPT !.Query = query] ELSE r

\* logql.Shards.Encode: one string for every shard
ShardsOf(n) == [i \in 1..n |-> [Shard |-> i - 1, Of |-> n]]
Encode(shards) ==
    [i \in DOMAIN shards |->
        ToString(shards[i].Shard) \o "_of_" \o ToString(shards[i].Of)]

\* WithShards (codec.go:59-63, 103-107)
WithShards(r, shards) == [r EXCEPT !.Shards = Encode(shards)]

\* new := *r ... return &new (codec.go:47-50 and the like): what a method
\* leaves in the receiver and what it returns
inPlace(r, new) == [recv |-> new, res |-> new]
structCopy(r, new) == [recv |-> r, res |-> new]

\* url.Values: the parameters that are present, each with its values
Put(form, key, values) ==
    [k \in DOMAIN form \cup {key} |-> IF k = key THEN values ELSE form[k]]

Param(form, key, zero) == IF key \in DOMAIN form THEN form[key][1] ELSE zero

HttpGet(path, form) == [Method |-> "GET", Path |-> path, Form |-> form]

\* fmt.Sprintf("%f", float64(request.Step)/float64(1e3)) (codec.go:277): the
\* step in seconds with six decimals, held as its count of microseconds
stepSeconds(step) == step * 1000

\* Codec.EncodeRequest (codec.go:259-361)
EncodeRequest(r) ==
    LET times == [start |-> <<r.StartTs>>, end |-> <<r.EndTs>>]
        query == [query |-> <<r.Query>>, direction |-> <<r.Direction>>,
                  limit |-> <<r.Limit>>]
        withShards(form) ==
            IF Len(r.Shards) > 0 THEN Put(form, "shards", r.Shards) ELSE form
        withStep(form) ==
            IF r.Step # 0 THEN Put(form, "step", <<stepSeconds(r.Step)>>) ELSE form
    IN  IF r.type = "range"
        THEN [res |-> HttpGet(RangePath,
                        withStep(withShards(
                            [k \in {"start", "end", "query", "direction", "limit"} |->
                                IF k \in DOMAIN times THEN times[k] ELSE query[k]]))),
              err |-> None]
        ELSE IF r.type = "series"
        THEN [res |-> HttpGet(SeriesPath,
                        withShards(Put(times, "match[]", r.Match))),
              err |-> None]
        ELSE IF r.type = "labels"
        THEN [res |-> HttpGet(LabelsPath, times), err |-> None]
        ELSE IF r.type = "instant"
        THEN [res |-> HttpGet(InstantPath,
                        withShards(Put(query, "time", <<r.StartTs>>))),
              err |-> None]
        ELSE [res |-> None,
              err |-> [kind |-> "httpgrpc", code |-> 500,
                       body |-> <<"invalid request format">>]]

\* loghttp.ParseRangeQuery and the like: the step parameter is seconds and
\* becomes a time.Duration, a count of nanoseconds
stepDuration(micros) == micros * 1000

\* Step: int64(req.Step) / 1e6 (codec.go:213-214)
stepNanos(d) == d
stepMillis(d) == GoDiv(d, 1000000)

\* Path: r.URL.Path (codec.go:215, 229, 241, 252)
pathOf(http) == http.Path

\* Codec.DecodeRequest (codec.go:197-257)
DecodeRequest(http) ==
    LET op == getOperation(http.Path)
        f == http.Form
        shards == IF "shards" \in DOMAIN f THEN f["shards"] ELSE << >>
    IN  IF op = "query_range"
        THEN [res |-> LokiRequest(pathOf(http), Param(f, "query", ""),
                        Param(f, "start", 0), Param(f, "end", 0),
                        stepMillis(stepDuration(Param(f, "step", 0))),
                        Param(f, "limit", 0), Param(f, "direction", "BACKWARD"),
                        shards),
              err |-> None]
        ELSE IF op = "query"
        THEN [res |-> LokiInstantRequest(pathOf(http), Param(f, "query", ""),
                        Param(f, "time", 0), Param(f, "limit", 0),
                        Param(f, "direction", "BACKWARD"), shards),
              err |-> None]
        ELSE IF op = "series"
        THEN [res |-> LokiSeriesRequest(pathOf(http),
                        IF "match[]" \in DOMAIN f THEN f["match[]"] ELSE << >>,
                        Param(f, "start", 0), Param(f, "end", 0), shards),
              err |-> None]
        ELSE IF op = "labels"
        THEN [res |-> LokiLabelNamesRequest(pathOf(http),
                        Param(f, "start", 0), Param(f, "end", 0)),
              err |-> None]
        ELSE [res |-> None, err |-> BadRequest("unknown request path")]

\* fmt.Sprintf of a format without operands, as httpgrpc.Errorf calls it: a
\* per cent sign and the verb after it print as a complaint. A text is the
\* sequence of its characters.
RECURSIVE Sprintf0(_)
Sprintf0(format) ==
    IF format = << >> THEN << >>
    ELSE IF Head(format) # "%" THEN <<Head(format)>> \o Sprintf0(Tail(format))
    ELSE IF Tail(format) = << >> THEN <<"%!(NOVERB)">>
    ELSE IF Head(Tail(format)) = "%" THEN <<"%">> \o Sprintf0(Tail(Tail(format)))
    ELSE <<"%!" \o Head(Tail(format)) \o "(MISSING)">> \o Sprintf0(Tail(Tail(format)))

\* httpgrpc.Errorf(code, format): the format is printed (codec.go:370)
Errorf(code, format) ==
    [kind |-> "httpgrpc", code |-> code, body |-> Sprintf0(format)]

\* The responses of the downstream: a status code and a body. A body is its
\* text and the document json.Unmarshal reads from it, named by its result
\* type.
StatusCodes == {200, 204, 404, 500}
Chars == {"d", "%"}
Texts == {<< >>} \cup {<<x>> : x \in Chars} \cup {<<x, y>> : x, y \in Chars}
ResultTypes == {"matrix", "vector", "streams", "scalar"}
Bodies ==
    {[text |-> x, doc |-> "invalid"] : x \in Texts}
        \cup {[text |-> <<"{", "}">>, doc |-> rt] : rt \in ResultTypes}
HttpResponses == [StatusCode : StatusCodes, Body : Bodies]

\* paramsFromRequest (codec.go:782-795)
paramsFromRequest(req) ==
    IF req.type \in {"range", "instant"}
    THEN [res |-> [Direction |-> req.Direction, Limit |-> req.Limit], err |-> None]
    ELSE [res |-> None, err |-> [kind |-> "error", msg |-> "expected *LokiRequest"]]

\* r.StatusCode/100 != 2 (codec.go:368)
rejected(r) == GoDiv(r.StatusCode, 100) # 2

\* Codec.DecodeResponse (codec.go:367-478)
DecodeResponse(r, req) ==
    LET undecodable == Errorf(500, <<"error decoding response">>) IN
    IF rejected(r) THEN [res |-> None, err |-> Errorf(r.StatusCode, r.Body.text)]
    ELSE IF r.Body.doc = "invalid" THEN [res |-> None, err |-> undecodable]
    ELSE IF req.type = "series"
    THEN [res |-> [variant |-> "LokiSeriesResponse", Status |-> "success",
                   Version |-> GetVersion(req.Path)],
          err |-> None]
    ELSE IF req.type = "labels"
    THEN [res |-> [variant |-> "LokiLabelNamesResponse", Status |-> "success",
                   Version |-> GetVersion(req.Path)],
          err |-> None]
    ELSE IF r.Body.doc = "matrix"
    THEN [res |-> [variant |-> "LokiPromResponse", ResultType |-> "matrix"],
          err |-> None]
    ELSE IF r.Body.doc = "streams"
    THEN LET params == paramsFromRequest(req) IN
         IF params.err # None THEN [res |-> None, err |-> params.err]
         ELSE [res |-> [variant |-> "LokiResponse", Status |-> "success",
                        Direction |-> params.res.Direction,
                        Limit |-> params.res.Limit,
                        Version |-> GetVersion(req.Path),
                        ResultType |-> "streams"],
               err |-> None]
    ELSE IF r.Body.doc = "vector"
    THEN [res |-> [variant |-> "LokiPromResponse", ResultType |-> "vector"],
          err |-> None]
    ELSE [res |-> None, err |-> Errorf(500, <<"unsupported response type">>)]

CDIdle ==
    /\ cdReq = None
    /\ cdHttp = None
    /\ cdDec = None
    /\ cdNew = None
    /\ cdResp = None
    /\ cdTyped = None

CDInit ==
    /\ \E s \in CodecTimes, e \in CodecTimes, shards \in ShardLists :
          /\ s <= e
          /\ \/ \E path \in {RangePath, LegacyRangePath}, q \in Queries,
                   step \in 0..MaxStep, limit \in 0..1, dir \in Directions :
                   cdReq = LokiRequest(path, q, s, e, step, limit, dir, shards)
             \/ \E path \in {InstantPath, LegacyInstantPath}, q \in Queries,
                   limit \in 0..1, dir \in Directions :
                   /\ s = e
                   /\ cdReq = LokiInstantRequest(path, q, s, limit, dir, shards)
             \/ \E match \in MatchLists :
                   cdReq = LokiSeriesRequest(SeriesPath, match, s, e, shards)
             \/ /\ shards = << >>
                /\ cdReq = LokiLabelNamesRequest(LabelsPath, s, e)
    /\ cdHttp = None
    /\ cdDec = None
    /\ cdNew = None
    /\ cdResp = None
    /\ cdTyped = None

CDFresh == cdHttp = None /\ cdNew = None /\ cdTyped = None

EncodeRequestCall ==
    /\ CDFresh
    /\ cdHttp' = EncodeRequest(cdReq)
    /\ UNCHANGED <<cdReq, cdDec, cdNew, cdResp, cdTyped>>
    /\ UNCHANGED notCD

DecodeRequestCall ==
    /\ cdHttp # None
    /\ cdHttp.err = None
    /\ cdDec = None
    /\ cdDec' = DecodeRequest(cdHttp.res)
    /\ UNCHANGED <<cdReq, cdHttp, cdNew, cdResp, cdTyped>>
    /\ UNCHANGED notCD

\* A method call on the request object: what it leaves in the object and
\* what it returns.
MethodCall(op, eff) ==
    /\ CDFresh
    /\ cdReq' = eff.recv
    /\ cdNew' = [op |-> op, res |-> eff.res]
    /\ UNCHANGED <<cdHttp, cdDec, cdResp, cdTyped>>
    /\ UNCHANGED notCD

WithStartEndCall ==
    /\ cdReq # None
    /\ \E s, e \in 0..MaxCodecTs :
          MethodCall("WithStartEnd", structCopy(cdReq, WithStartEnd(cdReq, s, e)))

WithQueryCall ==
    /\ cdReq # None
    /\ \E q \in Queries :
          MethodCall("WithQuery", structCopy(cdReq, WithQuery(cdReq, q)))

WithShardsCall ==
    /\ cdReq.type \in {"range", "instant"}
    /\ \E n \in 0..2 :
          MethodCall("WithShards", structCopy(cdReq, WithShards(cdReq, ShardsOf(n))))

DecodeResponseCall ==
    /\ CDFresh
    /\ \E r \in HttpResponses :
          /\ cdResp' = r
          /\ cdTyped' = DecodeResponse(r, cdReq)
    /\ UNCHANGED <<cdReq, cdHttp, cdDec, cdNew>>
    /\ UNCHANGED notCD

CDNext ==
    \/ EncodeRequestCall
    \/ DecodeRequestCall
    \/ WithStartEndCall
    \/ WithQueryCall
    \/ WithShardsCall
    \/ DecodeResponseCall

\* ------------------------------------------------------- specifications
\* The round-tripper of one outer request, with any middleware around it.
Init == RTInit /\ SLIdle /\ LMIdle /\ CKIdle /\ MGIdle /\ CDIdle
Next == RTNext
Spec == Init /\ [][Next]_vars

\* The series limiters of the outer requests, with any handler below them.
RTIdle ==
    /\ RTInit
    /\ parallelism = 0

InitSL == SLInit /\ RTIdle /\ LMIdle /\ CKIdle /\ MGIdle /\ CDIdle

SpecSL == InitSL /\ [][SLNext]_vars

\* One call of the limits middleware, with any handler below it.
InitLM == LMInit /\ RTIdle /\ SLIdle /\ CKIdle /\ MGIdle /\ CDIdle

SpecLM == InitLM /\ [][LMNext]_vars

\* One call of GenerateCacheKey, and two calls side by side.
InitCK == CKInit /\ RTIdle /\ SLIdle /\ LMIdle /\ MGIdle /\ CDIdle

SpecCK == InitCK /\ [][CKNext]_vars

InitCK2 == CKInit2 /\ RTIdle /\ SLIdle /\ LMIdle /\ MGIdle /\ CDIdle

SpecCK2 == InitCK2 /\ [][CKNext]_vars

\* One call of MergeResponse on the sub-responses of a log query.
InitMG == MGInit /\ RTIdle /\ SLIdle /\ LMIdle /\ CKIdle /\ CDIdle

SpecMG == InitMG /\ [][MGNext]_vars

\* One call of MergeResponse on the sub-responses of a split log query.
InitMGSplit == MGInitSplit /\ RTIdle /\ SLIdle /\ LMIdle /\ CKIdle /\ CDIdle

SpecMGSplit == InitMGSplit /\ [][MGNext]_vars

\* One call of the codec or of a request method on a typed request.
InitCD == CDInit /\ RTIdle /\ SLIdle /\ LMIdle /\ CKIdle /\ MGIdle

SpecCD == InitCD /\ [][CDNext]_vars

\* The scheduler runs every goroutine that can take a step, every transport
\* call in progress returns, and a cancelled scope cancels the contexts
\* derived from it.  Nothing forces the middleware to emit, cancel or return.
Fairness ==
    /\ WF_vars(DecodeRequestStep)
    /\ WF_vars(TenantStep)
    /\ WF_vars(SpawnWorkers)
    /\ WF_vars(WaitAndReturn)
    /\ \A w \in 1..LiveParallelism :
          WF_vars(WorkerSelect(w) \/ WorkerDo(w) \/ WorkerRoundTripReturn(w)
                  \/ WorkerReply(w))
    /\ \A s \in Subs : WF_vars(CallerOffer(s) \/ CallerAwait(s))
    /\ \A s \in Subs : WF_vars(PropagateCancel(s))

LiveInit ==
    /\ RTInit
    /\ SLIdle
    /\ LMIdle
    /\ CKIdle
    /\ MGIdle
    /\ CDIdle
    /\ parallelism <= LiveParallelism

\* The liveness checks run the middleware with two sub-requests, one more
\* than a single worker serves at a time.
LiveSubs == {1, 2}

LiveNext ==
    \/ RTSteps
    \/ \E s \in LiveSubs : Emit(s)

LiveSpec == LiveInit /\ [][LiveNext]_vars /\ Fairness

Pending(s) == cst[s] \in {"offer", "offerParked", "await", "awaitParked"}
Delivered(s) ==
    cst[s] = "returned" /\ cret[s].kind = "result" /\ cret[s].req = s
AllWorkersExited ==
    /\ pc \notin {"decode", "tenant", "spawn"}
    /\ \A w \in Workers : wstate[w] = "Exiting"

\* ------------------------------------------------------------------ C1
\* C1: at no time are more next.RoundTrip calls in progress than
\* MaxQueryParallelism(tenant) (none when the limit is zero or negative),
\* however many sub-requests the middleware has outstanding.
C1_BoundedInFlight ==
    InFlight <= (IF parallelism > 0 THEN parallelism ELSE 0)

\* every worker is inside the transport while a further sub-request waits
C1_Witness ==
    /\ parallelism >= 1
    /\ InFlight = parallelism
    /\ \E s \in Subs : cst[s] = "offerParked"

\* ------------------------------------------------------------------ C2
\* C2: an adapter call that returns anything but the cancellation error
\* returns the result of dispatching its own request.
C2_OwnResult ==
    \A s \in Subs :
        (cst[s] = "returned" /\ cret[s] # CtxErr)
            => (cret[s].kind = "result" /\ cret[s].req = s)

\* two sub-requests have both returned, with different outcomes
C2_Witness ==
    /\ cst[1] = "returned" /\ cret[1] = Result(1, "Error")
    /\ cst[2] = "returned" /\ cret[2] = Result(2, "Response")

\* ------------------------------------------------------------------ C3
\* C3: once the scope is cancelled every spawned worker eventually reaches
\* Exiting, given that transport calls in progress return.
C3_WorkersExit == scopeDone ~> AllWorkersExited

\* the workers have exited, one of them after replying to a caller that had
\* already returned on cancellation
C3_Witness ==
    /\ scopeDone
    /\ Workers # {}
    /\ AllWorkersExited
    /\ \E s \in Subs : cst[s] = "returned" /\ cret[s] = CtxErr /\ resultCh[s] # << >>

\* ------------------------------------------------------------------ C4
\* C4: when RoundTrip has returned, its scope is cancelled and every spawned
\* worker has exited, so no transport call is in progress or can start.
C4_ReturnAfterJoin ==
    pc = "returned" =>
        /\ scopeDone
        /\ \A w \in Workers : wstate[w] = "Exiting" /\ wpc[w] = "done"
        /\ InFlight = 0

\* RoundTrip returned an encode error after its worker had served a sub-request
C4_Witness ==
    /\ pc = "returned"
    /\ rtRet = Ret("nil", "EncodeResponse")
    /\ Workers # {}
    /\ \E s \in Subs : Delivered(s)

\* ------------------------------------------------------------------ C5
\* C5: with parallelism >= 1, a pending sub-request is eventually dispatched
\* and its caller receives its own result, unless its context or the scope is
\* cancelled first.
C5_EveryRequestServed ==
    \A s \in Subs :
        (Pending(s) /\ parallelism >= 1) ~> (Delivered(s) \/ fired[s] \/ scopeDone)

\* more sub-requests than workers, all of them served, nothing cancelled
C5_Witness ==
    /\ parallelism >= 1
    /\ parallelism < Cardinality(LiveSubs)
    /\ ~scopeDone
    /\ \A s \in LiveSubs : Delivered(s) /\ ~fired[s]

\* ------------------------------------------------------------------ C6
\* C6: an adapter call parked in either of its selects returns ctx.Err() at
\* the moment its context fires; a pending call whose context has fired
\* returns, and after the scope is cancelled no call stays pending.
C6_CancelUnblocks ==
    /\ [][\A s \in Subs :
            (cst[s] \in {"offerParked", "awaitParked"} /\ ~fired[s] /\ fired'[s])
                => (cst'[s] = "returned" /\ cret'[s] = CtxErr)]_vars
    /\ \A s \in Subs : (Pending(s) /\ fired[s]) ~> (cst[s] = "returned")
    /\ scopeDone ~> (\A s \in Subs : ~Pending(s))

\* a call returned the cancellation error while a worker is still inside the
\* transport call for its request
C6_Witness ==
    \E s \in Subs, w \in Workers :
        /\ cst[s] = "returned" /\ cret[s] = CtxErr
        /\ wpc[w] = "roundtrip" /\ wwork[w].req = s

\* ------------------------------------------------------------------ C7
\* C7: an error of rt.do reaches only the adapter call of its own sub-request;
\* the worker that replies with it returns to Idle, the scope is not cancelled
\* by the reply, and the other sub-requests are left as they were.
C7_ErrorStaysLocal ==
    [][/\ \A s \in Subs :
            (/\ cst[s] # "returned"
             /\ cst'[s] = "returned"
             /\ cret'[s].kind = "result"
             /\ cret'[s].val = "Error")
                => cret'[s].req = s
       /\ \A w \in Workers :
            (wpc[w] = "reply" /\ wres[w].val = "Error" /\ wpc'[w] # "reply")
                => /\ wstate'[w] = "Idle"
                   /\ wpc'[w] = "select"
                   /\ scopeDone' = scopeDone
                   /\ \A s \in Subs \ {wwork[w].req} :
                        /\ cst'[s] = cst[s]
                        /\ cret'[s] = cret[s]
                        /\ resultCh'[s] = resultCh[s]]_vars

\* the only worker serves sub-request 2 after its reply of an error to 1
C7_Witness ==
    /\ parallelism = 1
    /\ ~scopeDone
    /\ cst[1] = "returned" /\ cret[1] = Result(1, "Error")
    /\ \E w \in Workers : wpc[w] = "roundtrip" /\ wwork[w].req = 2

\* ------------------------------------------------------------------ C8
\* C8: when the middleware chain returns an error, RoundTrip returns that
\* error and no response, after cancelling its scope and joining its workers.
C8_HandlerErrorReturned ==
    (pc = "returned" /\ handlerRet.kind = "error") =>
        /\ rtRet = Ret("nil", handlerRet.err)
        /\ scopeDone
        /\ \A w \in Workers : wstate[w] = "Exiting"

\* the middleware failed while a sub-request was with a worker
C8_Witness ==
    /\ pc = "returned"
    /\ handlerRet = [kind |-> "error", err |-> "HandlerErr"]
    /\ \E s \in Subs : cst[s] = "returned" /\ cret[s] = CtxErr /\ resultCh[s] # << >>

\* ------------------------------------------------------------------ C9
\* C9: a Do call that inserted the series of its metric sub-response returns
\* TooManySeries when the set then holds more than max_series fingerprints,
\* and the sub-response unchanged when the set holds at most max_series at
\* the check that follows the insertion.
C9_PostInsertLimit ==
    [][\A d \in Calls :
            (dpc[d] = "postcheck" /\ dpc'[d] = "done") =>
                /\ dres[d].kind = "prom"
                /\ dsize[d] <= Cardinality(hashes[dlim[d]])
                /\ dret'[d] = IF Cardinality(hashes[dlim[d]]) > maxSeries
                              THEN [res |-> None, err |-> TooManySeries]
                              ELSE [res |-> dres[d], err |-> None]]_vars

\* on one limiter, one call got its metric response back and the other one,
\* whose series took the set over the limit, got TooManySeries
C9_Witness ==
    \E d, e \in Calls :
        /\ dlim[d] = dlim[e]
        /\ dpc[d] = "done" /\ dres[d].kind = "prom" /\ Len(dres[d].result) > 0
        /\ dret[d] = [res |-> dres[d], err |-> None]
        /\ dpc[e] = "done" /\ dres[e].kind = "prom"
        /\ dsize[e] = maxSeries + 1
        /\ dret[e] = [res |-> None, err |-> TooManySeries]

\* ----------------------------------------------------------------- C10
\* C10: the fingerprint set of a limiter only grows, and a Do call that starts
\* while the set holds more than max_series fingerprints returns
\* TooManySeries without calling the next handler.
C10_LimitStaysReached ==
    [][/\ \A l \in DOMAIN hashes : hashes[l] \subseteq hashes'[l]
       /\ \A d \in Calls :
            (/\ dpc[d] = "idle"
             /\ dpc'[d] # "idle"
             /\ Cardinality(hashes[dlim'[d]]) > maxSeries)
                => /\ dpc'[d] = "done"
                   /\ dret'[d] = [res |-> None, err |-> TooManySeries]
                   /\ dres'[d] = None]_vars

\* a call was rejected by the pre-check: the next handler never ran for it
C10_Witness ==
    \E d \in Calls :
        /\ dpc[d] = "done"
        /\ dres[d] = None
        /\ dret[d] = [res |-> None, err |-> TooManySeries]

\* ----------------------------------------------------------------- C11
\* C11: every Wrap adds a limiter with an empty fingerprint set and leaves the
\* other limiters alone; the set of a limiter changes only by the insertion of
\* a Do call running on that limiter, which adds the fingerprints of its
\* sub-response to what the earlier sub-requests left there; and the limit
\* checks of a call read the set of its own limiter only.
C11_LimiterPerRequest ==
    [][/\ Len(hashes') > Len(hashes) =>
            /\ Len(hashes') = Len(hashes) + 1
            /\ hashes'[Len(hashes')] = {}
       /\ \A l \in DOMAIN hashes :
            hashes'[l] # hashes[l] =>
                \E d \in Calls :
                    /\ dlim[d] = l
                    /\ dpc[d] = "insert"
                    /\ hashes'[l] = hashes[l] \cup
                          {Hash(dres[d].result[i]) : i \in 1..Len(dres[d].result)}
                    /\ \A k \in DOMAIN hashes \ {l} : hashes'[k] = hashes[k]
       /\ \A d \in Calls :
            (dpc[d] \in {"idle", "postcheck"} /\ dpc'[d] # dpc[d]) =>
                (dret'[d] = [res |-> None, err |-> TooManySeries]
                    <=> Cardinality(hashes[dlim'[d]]) > maxSeries)]_vars

\* two outer requests saw different series, one each, with a limit of one
\* series: neither was rejected
C11_Witness ==
    /\ maxSeries = 1
    /\ \E d, e \in Calls :
        /\ dlim[d] = 1 /\ dlim[e] = 2
        /\ dpc[d] = "done" /\ dpc[e] = "done"
        /\ dres[d].kind = "prom" /\ dres[e].kind = "prom"
        /\ dret[d] = [res |-> dres[d], err |-> None]
        /\ dret[e] = [res |-> dres[e], err |-> None]
        /\ hashes[1] # {} /\ hashes[2] # {}
        /\ hashes[1] # hashes[2]

\* ----------------------------------------------------- C12 .. C16
\* now - max_lookback in the milliseconds of the getters
MinStartMs == GoDiv(lmIn.now - lmIn.maxQueryLookback, TicksPerMs)

\* the call returned what the short-circuit returns: nothing was delegated
\* and the length check did not reject
ShortCircuited ==
    /\ lmNext = << >>
    /\ lmRet # [res |-> None, err |-> ErrQueryTooLong]

\* the response variants an empty response of a request may have
MatchingVariants(r) ==
    IF r.type = "series" THEN {"LokiSeriesResponse"}
    ELSE IF r.type = "labels" THEN {"LokiLabelNamesResponse"}
    ELSE IF r.type = "instant" THEN {"LokiPromResponse"}
    ELSE {"LokiPromResponse", "LokiResponse"}

IsEmptyTyped(ret, r) ==
    /\ ret.err = None
    /\ ret.res # None
    /\ ret.res.variant \in MatchingVariants(r)

LookbackCall == lmpc = "done" /\ lmIn.tenantOK /\ lmIn.maxQueryLookback > 0

\* C12: with max_lookback > 0, a request whose end is before
\* now - max_lookback never reaches the next handler and gets the empty typed
\* response of its shape (BadRequest in the place of it when it is a range
\* query whose query does not parse, the case C16 states); a request whose end
\* equals now - max_lookback is not short-circuited.
C12_ShortCircuit ==
    LookbackCall =>
        /\ GetEnd(lmIn.req) < MinStartMs =>
              /\ lmNext = << >>
              /\ IF lmIn.req.type = "range" /\ ParseExpr(lmIn.req.Query) = "invalid"
                 THEN lmRet = [res |-> None, err |-> BadRequest("parse")]
                 ELSE IsEmptyTyped(lmRet, lmIn.req)
        /\ GetEnd(lmIn.req) = MinStartMs => ~ShortCircuited

\* a series request that ends one millisecond before the bound was answered
\* with an empty series response
C12_Witness ==
    /\ LookbackCall
    /\ lmIn.req.type = "series"
    /\ GetEnd(lmIn.req) + 1 = MinStartMs
    /\ lmNext = << >>
    /\ lmRet = [res |-> [variant |-> "LokiSeriesResponse", Status |-> "success"],
                err |-> None]

\* C13: with max_lookback > 0, a request that is passed on has start equal to
\* now - max_lookback in milliseconds and its end unchanged when its start was
\* before that bound, and its start unchanged otherwise.
C13_ClampStart ==
    (LookbackCall /\ lmNext # << >>) =>
        /\ Len(lmNext) = 1
        /\ GetStart(lmIn.req) < MinStartMs =>
              /\ GetStart(lmNext[1]) = MinStartMs
              /\ GetEnd(lmNext[1]) = GetEnd(lmIn.req)
        /\ GetStart(lmIn.req) >= MinStartMs =>
              GetStart(lmNext[1]) = GetStart(lmIn.req)

\* a range request that started before the bound and ends after it was
\* passed on
C13_Witness ==
    /\ LookbackCall
    /\ lmIn.req.type = "range"
    /\ GetStart(lmIn.req) < MinStartMs
    /\ GetEnd(lmIn.req) > MinStartMs
    /\ lmNext # << >>
    /\ GetStart(lmNext[1]) = MinStartMs

\* end - start of the request as received, in clock ticks
ReceivedLen == (GetEnd(lmIn.req) - GetStart(lmIn.req)) * TicksPerMs

\* the request start after the lookback clamp, in milliseconds
EffectiveStart ==
    IF lmIn.maxQueryLookback > 0 /\ GetStart(lmIn.req) < MinStartMs
    THEN MinStartMs
    ELSE GetStart(lmIn.req)

EffectiveLen == (GetEnd(lmIn.req) - EffectiveStart) * TicksPerMs

BeforeLookback == lmIn.maxQueryLookback > 0 /\ GetEnd(lmIn.req) < MinStartMs

\* C14: with max_length > 0, a request that reaches the length check (the
\* lookback did not short-circuit it) gets BadRequest(QueryTooLong), without a
\* call of the next handler, when its end minus its start, as the lookback
\* clamp left it, is greater than max_length, and is delegated when that
\* length equals max_length.
C14_QueryTooLong ==
    (lmpc = "done" /\ lmIn.tenantOK /\ lmIn.maxQueryLength > 0 /\ ~BeforeLookback) =>
        /\ EffectiveLen > lmIn.maxQueryLength =>
              lmRet = [res |-> None, err |-> ErrQueryTooLong] /\ lmNext = << >>
        /\ EffectiveLen = lmIn.maxQueryLength => Len(lmNext) = 1

\* a request exactly as long as max_length was delegated
C14_Witness ==
    /\ lmpc = "done"
    /\ lmIn.tenantOK
    /\ lmIn.maxQueryLength > 0
    /\ ~BeforeLookback
    /\ EffectiveLen = lmIn.maxQueryLength
    /\ Len(lmNext) = 1

\* C15: without a tenant in the context the call fails with BadRequest and
\* the next handler is not called, whatever the lookback and the length of the
\* request are.
C15_NoTenant ==
    (lmpc = "done" /\ ~lmIn.tenantOK) =>
        /\ lmRet = [res |-> None, err |-> BadRequest("no org id")]
        /\ lmNext = << >>

\* no tenant, on a request that is before the lookback and too long for
\* max_length
C15_Witness ==
    /\ lmpc = "done"
    /\ ~lmIn.tenantOK
    /\ BeforeLookback
    /\ lmIn.maxQueryLength > 0
    /\ ReceivedLen > lmIn.maxQueryLength
    /\ lmRet = [res |-> None, err |-> BadRequest("no org id")]

\* C16: the response of a short-circuited request is a LokiSeriesResponse for
\* a series request, a LokiLabelNamesResponse for a label-names request, a
\* vector LokiPromResponse for an instant request, and for a range request a
\* LokiPromResponse when the query is a sample expression, a LokiResponse with
\* the direction and the limit of the request and result type streams when it
\* is a log expression, and BadRequest when the query does not parse.
C16_EmptyVariant ==
    (LookbackCall /\ BeforeLookback) =>
        LET r == lmIn.req IN
        /\ r.type = "series" =>
              lmRet.err = None /\ lmRet.res.variant = "LokiSeriesResponse"
        /\ r.type = "labels" =>
              lmRet.err = None /\ lmRet.res.variant = "LokiLabelNamesResponse"
        /\ r.type = "instant" =>
              /\ lmRet.err = None
              /\ lmRet.res.variant = "LokiPromResponse"
              /\ lmRet.res.ResultType = "vector"
        /\ (r.type = "range" /\ ParseExpr(r.Query) = "sample") =>
              lmRet.err = None /\ lmRet.res.variant = "LokiPromResponse"
        /\ (r.type = "range" /\ ParseExpr(r.Query) = "log") =>
              /\ lmRet.err = None
              /\ lmRet.res.variant = "LokiResponse"
              /\ lmRet.res.Direction = r.Direction
              /\ lmRet.res.Limit = r.Limit
              /\ lmRet.res.ResultType = "streams"
        /\ (r.type = "range" /\ ParseExpr(r.Query) = "invalid") =>
              lmRet.res = None /\ lmRet.err = BadRequest("parse")

\* a short-circuited metric range query got an empty LokiPromResponse
C16_Witness ==
    /\ LookbackCall
    /\ BeforeLookback
    /\ lmIn.req.type = "range"
    /\ ParseExpr(lmIn.req.Query) = "sample"
    /\ lmRet.err = None
    /\ lmRet.res.variant = "LokiPromResponse"

\* ----------------------------------------------------- C17 .. C19
\* the split duration call c resolved, in clock ticks and in milliseconds
SplitOf(c) == QuerySplitDuration(ckIn[c].l, ckIn[c].userID)
SplitMsOf(c) == SplitOf(c) \div TicksPerMs

\* (tenant, query, step, floor(start/split), split) of call c
KeyTuple(c) ==
    <<ckIn[c].userID, ckIn[c].r.Query, ckIn[c].r.Step,
      (ckIn[c].r.StartTs \div TicksPerMs) \div SplitMsOf(c), SplitOf(c)>>

\* C17 as stated: two calls of GenerateCacheKey with positive splits return
\* equal keys if and only if their tuples (tenant, query, step,
\* floor(start/split), split) are equal; calls that differ in tenant or query
\* never return the same key.
C17_Original ==
    (/\ DOMAIN ckIn = {1, 2}
     /\ ckOut[1] # None /\ ckOut[2] # None
     /\ ckOut[1].kind = "key" /\ ckOut[2].kind = "key") =>
        (ckOut[1].key = ckOut[2].key <=> KeyTuple(1) = KeyTuple(2))

TruncQuot(a, b) == IF a >= 0 THEN a \div b ELSE 0 - ((0 - a) \div b)

C19_Original ==
    (DOMAIN ckIn = {1} /\ ckOut[1] # None) =>
        /\ SplitOf(1) > 0 => ckOut[1].kind = "key"
        /\ ckOut[1].kind = "panic" => SplitOf(1) = 0

\* ----------------------------------------------------------------- C20
RECURSIVE CountEntries(_)
CountEntries(streams) ==
    IF streams = << >> THEN 0
    ELSE Len(Head(streams).Entries) + CountEntries(Tail(streams))

\* MergeResponse returned a response
Merged == mgOut # None /\ mgOut # Panic /\ mgOut.err = None

MergedLog == Merged /\ mgOut.res.variant = "LokiResponse"

\* C20: the streams of a merged log-stream response hold at most limit
\* entries together, whatever the responses and the limit are.
C20_AtMostLimit ==
    MergedLog => CountEntries(mgOut.res.Result) <= mgIn[1].Limit

\* the first of two responses alone held more entries than the limit, and the
\* merge kept limit of them
C20_Witness ==
    /\ MergedLog
    /\ Len(mgIn) = 2
    /\ mgIn[1].Limit > 0
    /\ CountEntries(mgIn[1].Result) > mgIn[1].Limit
    /\ CountEntries(mgOut.res.Result) = mgIn[1].Limit

\* ----------------------------------------------------------------- C21
Min(a, b) == IF a < b THEN a ELSE b

TimesOf(entries) == [p \in DOMAIN entries |-> entries[p].Timestamp]

RECURSIVE SumEntries(_)
SumEntries(responses) ==
    IF responses = << >> THEN 0
    ELSE CountEntries(Head(responses).Result) + SumEntries(Tail(responses))

\* the entries of a stream follow the direction
SortedStream(s, direction) ==
    \A p, q \in DOMAIN s.Entries :
        p < q => ~Before(s.Entries[q].Timestamp, s.Entries[p].Timestamp, direction)

\* The precondition of the merge: the responses are log-stream responses of
\* one direction, every stream is sorted in it, the streams of a response
\* have distinct labels, and the streams of one label in two responses do
\* not overlap.
MergePrecondition ==
    /\ Len(mgIn) > 0
    /\ \A i \in DOMAIN mgIn :
          /\ mgIn[i].variant = "LokiResponse"
          /\ mgIn[i].Direction = mgIn[1].Direction
          /\ LET r == mgIn[i].Result IN
             /\ \A j \in DOMAIN r : SortedStream(r[j], mgIn[1].Direction)
             /\ \A j, k \in DOMAIN r : j # k => r[j].Labels # r[k].Labels
    /\ \A i, k \in DOMAIN mgIn :
          i < k =>
            \A j \in DOMAIN mgIn[i].Result, m \in DOMAIN mgIn[k].Result :
                mgIn[i].Result[j].Labels = mgIn[k].Result[m].Labels =>
                    Apart(TimesOf(mgIn[i].Result[j].Entries),
                          TimesOf(mgIn[k].Result[m].Entries), mgIn[1].Direction)

\* the stream of the inputs an entry was read from
OriginOf(e) == e.Line \div 10

\* C21: under the merge precondition the merged response holds exactly
\* min(limit, sum of the entries of the responses) entries, and in every
\* stream of it the entries are sorted in the direction and the entries read
\* from one input stream stand in the order they had there.
C21_ExactCount ==
    (MergedLog /\ MergePrecondition) =>
        LET out == mgOut.res.Result IN
        /\ CountEntries(out) = Min(mgIn[1].Limit, SumEntries(mgIn))
        /\ \A k \in DOMAIN out :
              /\ SortedStream(out[k], mgIn[1].Direction)
              /\ \A p, q \in DOMAIN out[k].Entries :
                    (p < q /\ OriginOf(out[k].Entries[p]) = OriginOf(out[k].Entries[q]))
                        => out[k].Entries[p].Line < out[k].Entries[q].Line

\* two responses hold more entries than the limit, and one stream of the
\* merged response holds entries of both, two of them from one input stream
C21_Witness ==
    /\ MergedLog
    /\ MergePrecondition
    /\ Len(mgIn) = 2
    /\ SumEntries(mgIn) > mgIn[1].Limit
    /\ CountEntries(mgOut.res.Result) = mgIn[1].Limit
    /\ \E k \in DOMAIN mgOut.res.Result :
          LET es == mgOut.res.Result[k].Entries IN
          /\ \E p, q \in DOMAIN es : es[p].Line < 200 /\ es[q].Line > 200
          /\ \E p, q \in DOMAIN es : p # q /\ OriginOf(es[p]) = OriginOf(es[q])

\* ----------------------------------------------------------------- C22
\* the entries of a list of streams, each with the label of its stream
EntriesOf(streams) ==
    UNION {{[Labels |-> streams[j].Labels, Entry |-> streams[j].Entries[p]] :
                p \in DOMAIN streams[j].Entries} : j \in DOMAIN streams}

InputEntries == UNION {EntriesOf(mgIn[i].Result) : i \in DOMAIN mgIn}

\* x ranks before y under the comparator over (timestamp, label)
RankBefore(x, y, direction) ==
    \/ Before(x.Entry.Timestamp, y.Entry.Timestamp, direction)
    \/ /\ x.Entry.Timestamp = y.Entry.Timestamp
       /\ Before(Rank(x.Labels), Rank(y.Labels), direction)

\* the merged response holds limit entries of the inputs, and no entry left
\* out ranks before one of them
FirstRanked ==
    LET out == EntriesOf(mgOut.res.Result) IN
    /\ CountEntries(mgOut.res.Result) = mgIn[1].Limit
    /\ Cardinality(out) = mgIn[1].Limit
    /\ out \subseteq InputEntries
    /\ \A e \in out, f \in InputEntries \ out :
          ~RankBefore(f, e, mgIn[1].Direction)

\* the responses are passed in the order of the direction: no entry of a
\* later response ranks before an entry of an earlier one
ResponsesOrdered ==
    \A i, k \in DOMAIN mgIn :
        i < k => \A e \in EntriesOf(mgIn[i].Result), f \in EntriesOf(mgIn[k].Result) :
                    ~RankBefore(f, e, mgIn[1].Direction)

\* C22 as stated: under the merge precondition, when the inputs hold more
\* than limit entries, the merged response consists of the limit entries that
\* rank first among all entries of all responses, whatever the position of
\* each response in the argument list.
C22_Original ==
    (MergedLog /\ MergePrecondition /\ SumEntries(mgIn) > mgIn[1].Limit)
        => FirstRanked

\* C22, amended: under the merge precondition, when the inputs hold more than
\* limit entries and the responses are passed in the order of the direction,
\* the merged response consists of the limit entries that rank first among
\* all entries of all responses.
C22_FirstRanked ==
    (MergedLog /\ MergePrecondition /\ ResponsesOrdered
            /\ SumEntries(mgIn) > mgIn[1].Limit)
        => FirstRanked

\* BACKWARD, limit 3, one label, [4, 3] then [2, 1] merge to [4, 3, 2]
C22_Witness ==
    /\ MergedLog
    /\ Len(mgIn) = 2
    /\ mgIn[1].Limit = 3
    /\ mgIn[1].Direction = "BACKWARD"
    /\ Len(mgIn[1].Result) = 1
    /\ Len(mgIn[2].Result) = 1
    /\ mgIn[1].Result[1].Labels = mgIn[2].Result[1].Labels
    /\ TimesOf(mgIn[1].Result[1].Entries) = <<4, 3>>
    /\ TimesOf(mgIn[2].Result[1].Entries) = <<2, 1>>
    /\ Len(mgOut.res.Result) = 1
    /\ TimesOf(mgOut.res.Result[1].Entries) = <<4, 3, 2>>

\* ----------------------------------------------------------------- C23
\* the responses are all series responses, or all label names responses
ListMerge ==
    /\ Len(mgIn) > 0
    /\ mgIn[1].variant \in {"LokiSeriesResponse", "LokiLabelNamesResponse"}
    /\ \A i \in DOMAIN mgIn : mgIn[i].variant = mgIn[1].variant

\* the canonical string form of an element of Data
KeyOf(x) == IF mgIn[1].variant = "LokiSeriesResponse" THEN SeriesString(x) ELSE x

\* the place of the first element of list that has the string form of x
FirstPlace(list, x) ==
    CHOOSE k \in DOMAIN list :
        /\ KeyOf(list[k]) = KeyOf(x)
        /\ \A m \in 1..(k - 1) : KeyOf(list[m]) # KeyOf(x)

\* C23: the merge of series responses (of label names responses) holds no
\* two elements of one canonical string form, holds exactly the elements of
\* the inputs, each once, in the order of their first appearance in the
\* inputs taken in argument order, and merging the merged response alone
\* returns the same list.
C23_UnionInOrder ==
    (mgOut # None /\ ListMerge) =>
        /\ Merged
        /\ LET out == mgOut.res.Data
               all == AllData(mgIn)
           IN  /\ \A p, q \in DOMAIN out : p # q => KeyOf(out[p]) # KeyOf(out[q])
               /\ {KeyOf(out[p]) : p \in DOMAIN out}
                      = {KeyOf(all[k]) : k \in DOMAIN all}
               /\ \A p \in DOMAIN out : out[p] = all[FirstPlace(all, out[p])]
               /\ \A p, q \in DOMAIN out :
                      p < q => FirstPlace(all, out[p]) < FirstPlace(all, out[q])
               /\ MergeResponse(<<mgOut.res>>) = mgOut

\* the series {a=1,b=2}, {a=1,b=3} and {a=1,b=2}, {a=1,b=4} merge to
\* {a=1,b=2}, {a=1,b=3}, {a=1,b=4}
C23_Witness ==
    /\ Merged
    /\ ListMerge
    /\ Len(mgIn) = 2
    /\ mgIn[1].Data = <<[a |-> "1", b |-> "2"], [a |-> "1", b |-> "3"]>>
    /\ mgIn[2].Data = <<[a |-> "1", b |-> "2"], [a |-> "1", b |-> "4"]>>
    /\ mgOut.res.Data = <<[a |-> "1", b |-> "2"], [a |-> "1", b |-> "3"],
                          [a |-> "1", b |-> "4"]>>

\* ----------------------------------------------------------------- C24
\* the responses do not all have the variant of the first
MixedShapes ==
    /\ Len(mgIn) > 0
    /\ \E i \in DOMAIN mgIn : mgIn[i].variant # mgIn[1].variant

\* C24: when the responses do not all have the variant of the first,
\* MergeResponse returns an error value: it neither panics nor returns a
\* merged response.
C24_Original ==
    (mgOut # None /\ MixedShapes) =>
        /\ mgOut # Panic
        /\ mgOut.res = None
        /\ mgOut.err # None

\* ----------------------------------------------------------------- C25
\* the canonical path of a request variant
CanonicalPath(r) ==
    IF r.type = "range" THEN RangePath
    ELSE IF r.type = "instant" THEN InstantPath
    ELSE IF r.type = "series" THEN SeriesPath
    ELSE LabelsPath

\* d equals r on the variant, the query, start and end in milliseconds, the
\* step, the limit, the direction, the shards and the matchers
SameSemantics(r, d) ==
    /\ d.type = r.type
    /\ d.Query = r.Query
    /\ GetStart(d) = GetStart(r)
    /\ GetEnd(d) = GetEnd(r)
    /\ d.Step = r.Step
    /\ d.Limit = r.Limit
    /\ d.Direction = r.Direction
    /\ d.Shards = r.Shards
    /\ d.Match = r.Match

Decoded == cdDec # None /\ cdDec.err = None

C26_Original ==
    cdTyped # None =>
        /\ (cdResp.StatusCode < 200 \/ cdResp.StatusCode > 299) =>
              /\ cdTyped.res = None
              /\ cdTyped.err = [kind |-> "httpgrpc", code |-> cdResp.StatusCode,
                                body |-> cdResp.Body.text]
        /\ (/\ cdResp.StatusCode \in 200..299
            /\ cdReq.type \in {"range", "instant"}
            /\ cdResp.Body.doc \notin {"matrix", "vector", "streams"}) =>
              /\ cdTyped.res = None
              /\ cdTyped.err.kind = "httpgrpc"
              /\ cdTyped.err.code = 500

\* ----------------------------------------------------------------- C27
RequestFields ==
    {"type", "Path", "Query", "StartTs", "EndTs", "Step", "Limit", "Direction",
     "Shards", "Match"}

\* the fields a method sets
SetBy(op) ==
    IF op = "WithStartEnd" THEN {"StartTs", "EndTs"}
    ELSE IF op = "WithQuery" THEN {"Query"}
    ELSE {"Shards"}

\* C27: a call of WithStartEnd, WithQuery or WithShards leaves every field of
\* the request it is called on as it was, and every field of the request it
\* returns, other than the ones the method sets, equals the receiver's.
C27_CopyOnWrite ==
    [][(cdNew = None /\ cdNew' # None) =>
          /\ cdReq' = cdReq
          /\ \A f \in RequestFields \ SetBy(cdNew'.op) :
                cdNew'.res[f] = cdReq[f]]_vars

\* WithStartEnd returned a range request of another start, as the limits
\* middleware asks for, and the receiver has the start it had
C27_Witness ==
    /\ cdNew # None
    /\ cdNew.op = "WithStartEnd"
    /\ cdReq.type = "range"
    /\ GetStart(cdNew.res) > GetStart(cdReq)
    /\ GetEnd(cdNew.res) = GetEnd(cdReq)
    /\ cdNew.res.Query = cdReq.Query

\* ----------------------------------------------------------------- C28
\* C28: every worker is in one of the states Idle, Dispatching and Exiting;
\* it goes from Idle to Dispatching when it receives a work item, from
\* Dispatching to Idle when it has sent the reply, to Exiting only when the
\* context of the scope is done, and nowhere else; an exited worker stays
\* exited and receives no work.
C28_WorkerStates ==
    [][\A w \in Workers :
         /\ wstate'[w] \in {"Idle", "Dispatching", "Exiting"}
         /\ wstate'[w] # wstate[w] =>
               \/ /\ wstate[w] = "Idle"
                  /\ wstate'[w] = "Dispatching"
                  /\ wwork[w] = None
                  /\ wwork'[w] # None
               \/ /\ wstate[w] = "Dispatching"
                  /\ wstate'[w] = "Idle"
                  /\ wpc[w] = "reply"
                  /\ LET s == wwork[w].req IN
                     \/ cret'[s] = wres[w]
                     \/ resultCh'[s] = Append(resultCh[s], wres[w])
               \/ /\ wstate[w] \in {"Idle", "Dispatching"}
                  /\ wstate'[w] = "Exiting"
                  /\ scopeDone'
         /\ wstate[w] = "Exiting" =>
               /\ wstate'[w] = "Exiting"
               /\ wwork'[w] = wwork[w]]_vars

\* a worker has served a sub-request and then exited
C28_Witness ==
    /\ \E s \in Subs : cst[s] = "returned" /\ cret[s] = Result(s, "Response")
    /\ \E w \in Workers : wstate[w] = "Exiting"
    /\ \E w \in Workers : wstate[w] = "Dispatching"

\* ----------------------------------------------------------------- C29
\* the work items that carry reply channel ch and are held by a worker
HoldersOf(ch) == {w \in Workers : wwork[w] # None /\ wwork[w].result = ch}

\* the adapter calls that have taken a result from reply channel ch
TakersOf(ch) ==
    {s \in Subs : /\ newWork(s, s).result = ch
                  /\ cst[s] = "returned"
                  /\ cret[s].kind = "result"}

\* C29: the reply channel of a work item receives at most one result over
\* its lifetime (the item is with one worker, or its result is in the buffer,
\* or its result has been taken: never two of these), so the send of a worker
\* that has its result can always proceed, also when the caller has returned
\* on its cancelled context and nobody will read the reply.
C29_ReplyNeverBlocks ==
    /\ \A ch \in Subs :
          Cardinality(HoldersOf(ch)) + Len(resultCh[ch])
              + Cardinality(TakersOf(ch)) <= 1
    /\ \A w \in Workers :
          wpc[w] = "reply" =>
              \/ ParkedReceivers(wwork[w].result) # {}
              \/ Len(resultCh[wwork[w].result]) < ResultCap

\* a result sits in the reply channel of a caller that has returned ctx.Err()
C29_Witness ==
    \E s \in Subs :
        /\ cst[s] = "returned"
        /\ cret[s] = CtxErr
        /\ resultCh[newWork(s, s).result] = << Result(s, "Response") >>

\* ----------------------------------------------------------------- C30
\* the distinct series of the metric sub-responses limiter l has inserted
SeenSeries(l) ==
    UNION {{dres[d].result[i] : i \in 1..Len(dres[d].result)} :
             d \in {e \in Calls : /\ dlim[e] = l
                                  /\ dpc[e] \in {"postcheck", "done"}
                                  /\ dres[e] # None
                                  /\ dres[e].kind = "prom"}}

\* call d runs one of the two limit checks of Do in this step
LimitCheck(d) ==
    \/ dpc[d] = "idle" /\ dpc'[d] # "idle"
    \/ dpc[d] = "postcheck" /\ dpc'[d] = "done"

Rejection == [res |-> None, err |-> TooManySeries]

\* The claim as stated: a limit check rejects exactly when max_series+1
\* distinct series have been observed, and the fingerprint set holds exactly
\* max_series+1 fingerprints at the moment of rejection.
C30_Original ==
    [][\A d \in Calls :
         LimitCheck(d) =>
            /\ dret'[d] = Rejection
                  <=> Cardinality(SeenSeries(dlim'[d])) >= maxSeries + 1
            /\ dret'[d] = Rejection
                  => Cardinality(hashes[dlim'[d]]) = maxSeries + 1]_vars

\* C30: the limiter is strict: while the sub-responses of an outer request
\* together hold at most max_series distinct series no check rejects, a
\* check rejects exactly when max_series+1 distinct series have been
\* observed, and at the moment of rejection the fingerprint set holds at
\* least max_series+1 fingerprints.
C30_StrictLimit ==
    [][\A d \in Calls :
         LimitCheck(d) =>
            /\ dret'[d] = Rejection
                  <=> Cardinality(SeenSeries(dlim'[d])) >= maxSeries + 1
            /\ dret'[d] = Rejection
                  => Cardinality(hashes[dlim'[d]]) >= maxSeries + 1]_vars

\* on one limiter a call passed its check with exactly max_series series in
\* the set, and another call was rejected
C30_Witness ==
    \E d, e \in Calls :
        /\ dlim[d] = dlim[e]
        /\ maxSeries > 0
        /\ dpc[d] = "done" /\ dres[d] # None /\ dres[d].kind = "prom"
        /\ dsize[d] = maxSeries
        /\ dret[d] = [res |-> dres[d], err |-> None]
        /\ dpc[e] = "done"
        /\ dret[e] = Rejection
        /\ Cardinality(hashes[dlim[e]]) >= maxSeries + 1

\* ----------------------------------------------------------------- C31
\* the results of the next handler that Do hands back without an insertion
PassedThrough(r) ==
    IF r.kind = "error" THEN [res |-> None, err |-> r] ELSE [res |-> r, err |-> None]

\* C31: a Do call whose next handler returns an error, a response that is no
\* metric response, or a metric response without payload returns that result
\* as it is and leaves the fingerprint set alone; the set of a limiter changes
\* only by the insertion of the label sets of a metric sub-response, and it
\* holds one fingerprint per distinct label set however often it was inserted.
C31_PassThrough ==
    [][/\ \A d \in Calls :
            (/\ dpc[d] = "next"
             /\ dpc'[d] # "next"
             /\ dres'[d].kind \in {"error", "stream", "promNil"})
                => /\ dpc'[d] = "done"
                   /\ dret'[d] = PassedThrough(dres'[d])
                   /\ hashes' = hashes
       /\ \A l \in DOMAIN hashes :
            hashes'[l] # hashes[l] =>
                \E d \in Calls :
                    /\ dlim[d] = l
                    /\ dpc[d] = "insert"
                    /\ dpc'[d] = "postcheck"
                    /\ dres[d].kind = "prom"
                    /\ hashes'[l] = hashes[l] \cup
                          {Hash(dres[d].result[i]) : i \in 1..Len(dres[d].result)}
       /\ \A l \in DOMAIN hashes' :
            Cardinality(hashes'[l]) = Cardinality(SeenSeries(l))']_vars

\* on one limiter two calls inserted the same label set, which counts once
C31_Witness ==
    \E d, e \in Calls :
        /\ d # e
        /\ dlim[d] = dlim[e]
        /\ dpc[d] = "done" /\ dpc[e] = "done"
        /\ dres[d].kind = "prom" /\ Len(dres[d].result) > 0
        /\ dres[e] = dres[d]
        /\ Cardinality(hashes[dlim[d]]) = 1

\* ----------------------------------------------------------------- C32
\* the merge went past the escape hatch, through the priority queue
QueuePath == SumEntries(mgIn) > mgIn[1].Limit /\ CountEntries(mgIn[1].Result) < mgIn[1].Limit

\* C32: the streams of a merged log response stand in label order, ascending
\* for FORWARD and descending for BACKWARD, whether all entries were kept or
\* the priority queue cut them to the limit; so no label names two streams.
C32_LabelOrder ==
    MergedLog =>
        \A i, j \in DOMAIN mgOut.res.Result :
            i < j => Before(Rank(mgOut.res.Result[i].Labels),
                            Rank(mgOut.res.Result[j].Labels),
                            mgOut.res.Direction)

\* a BACKWARD merge through the priority queue returned two streams
C32_Witness ==
    /\ MergedLog
    /\ mgOut.res.Direction = "BACKWARD"
    /\ QueuePath
    /\ Len(mgOut.res.Result) = 2
    /\ mgOut.res.Result[1].Labels = LabelOrder[2]

\* ----------------------------------------------------------------- C33
\* C33: a merged log response holds no stream without entries, whether all
\* entries were kept or they were cut to the limit.
C33_Original ==
    MergedLog =>
        \A i \in DOMAIN mgOut.res.Result : Len(mgOut.res.Result[i].Entries) > 0

\* ----------------------------------------------------------------- C34
Carries(r) == r.ErrorType # "" \/ r.Error # ""

\* C34: the merge of log-stream responses discards no error: when a
\* response, the first or a later one, carries an error type or an error
\* message, the merged response carries it too.
C34_Original ==
    MergedLog =>
        \A i \in DOMAIN mgIn :
            Carries(mgIn[i]) =>
                /\ mgOut.res.ErrorType = mgIn[i].ErrorType
                /\ mgOut.res.Error = mgIn[i].Error

\* ----------------------------------------------------------------- C35
\* C35: the limits middleware resolves the tenant, then short-circuits on the
\* lookback, then clamps the start, then checks the length, then delegates.
\* So a request before the lookback is answered without a length error; a
\* request longer than max_length as received but not as clamped is passed
\* on, clamped; and with neither a lookback nor a length limit every request
\* with a tenant is passed on once, as it was received.
C35_StepOrder ==
    (lmpc = "done" /\ lmIn.tenantOK) =>
        /\ BeforeLookback => lmRet.err # ErrQueryTooLong /\ lmNext = << >>
        /\ (/\ lmIn.maxQueryLength > 0
            /\ ~BeforeLookback
            /\ ReceivedLen > lmIn.maxQueryLength
            /\ EffectiveLen <= lmIn.maxQueryLength)
              => /\ Len(lmNext) = 1
                 /\ GetStart(lmNext[1]) = MinStartMs
                 /\ GetEnd(lmNext[1]) = GetEnd(lmIn.req)
        /\ (lmIn.maxQueryLookback <= 0 /\ lmIn.maxQueryLength <= 0)
              => lmNext = <<lmIn.req>>

\* a range request too long as received was clamped to max_length and passed
\* on
C35_Witness ==
    /\ lmpc = "done"
    /\ lmIn.tenantOK
    /\ lmIn.req.type = "range"
    /\ lmIn.maxQueryLength > 0
    /\ ~BeforeLookback
    /\ ReceivedLen > lmIn.maxQueryLength
    /\ EffectiveLen = lmIn.maxQueryLength
    /\ Len(lmNext) = 1
    /\ lmRet.err = None

\* ----------------------------------------------------------------- C36
\* C36: the next handler is called at most once for a request, and the
\* request it gets starts at or after now - max_lookback when max_lookback > 0,
\* is at most max_length long when max_length > 0, has start <= end when the
\* request received had, and ends where the request received ends (start and
\* end read in milliseconds, as GetStart and GetEnd give them).
C36_Delegated ==
    lmpc = "done" =>
        /\ Len(lmNext) <= 1
        /\ lmNext # << >> =>
              /\ lmIn.maxQueryLookback > 0 => GetStart(lmNext[1]) >= MinStartMs
              /\ lmIn.maxQueryLength > 0 =>
                    (GetEnd(lmNext[1]) - GetStart(lmNext[1])) * TicksPerMs
                        <= lmIn.maxQueryLength
              /\ GetStart(lmIn.req) <= GetEnd(lmIn.req) =>
                    GetStart(lmNext[1]) <= GetEnd(lmNext[1])
              /\ GetEnd(lmNext[1]) = GetEnd(lmIn.req)

\* a request was clamped under both limits and passed on with its end
C36_Witness ==
    /\ lmpc = "done"
    /\ lmIn.maxQueryLookback > 0
    /\ lmIn.maxQueryLength > 0
    /\ GetStart(lmIn.req) < MinStartMs
    /\ Len(lmNext) = 1
    /\ GetStart(lmNext[1]) = MinStartMs
    /\ GetStart(lmNext[1]) < GetEnd(lmNext[1])

\* ----------------------------------------------------------------- C37
\* RoundTrip left before it called the middleware
EarlyReturn == cancelCalled /\ handlerRet = None

\* C37: when DecodeRequest fails or the tenant cannot be resolved, RoundTrip
\* returns a BadRequest error; no worker was spawned, no adapter call and no
\* transport call was made, and the deferred wg.Wait() has nothing to wait
\* for.
C37_EarlyFailure ==
    EarlyReturn =>
        /\ pending = Ret("nil", "BadRequest")
        /\ Workers = {}
        /\ InFlight = 0
        /\ \A s \in Subs : cst[s] = "unborn" /\ resultCh[s] = << >>
        /\ pc = "wait" => WaitDone(wstate)
        /\ pc = "returned" => rtRet = Ret("nil", "BadRequest")

\* RoundTrip has returned BadRequest without a call of the middleware
C37_Witness ==
    /\ pc = "returned"
    /\ handlerRet = None
    /\ rtRet = Ret("nil", "BadRequest")
    /\ Workers = {}

\* ----------------------------------------------------------------- C38
\* with no worker, an adapter call waits in its first select and leaves it
\* only through the Done case of its context
BlockedOnOffer ==
    \A s \in Subs :
        /\ cst[s] \in {"unborn", "offer", "offerParked", "returned"}
        /\ cst[s] = "returned" => cret[s] = CtxErr /\ fired[s]
        /\ resultCh[s] = << >>

Succeeded == pc = "returned" /\ rtRet = Ret("HTTPResponse", "nil")

\* The claim as stated: with a parallelism of zero or less RoundTrip succeeds
\* only when the middleware made no adapter call at all.
C38_Original ==
    parallelism <= 0 =>
        /\ Workers = {}
        /\ InFlight = 0
        /\ BlockedOnOffer
        /\ Succeeded => \A s \in Subs : cst[s] = "unborn"

\* C38: with a parallelism of zero or less no worker is spawned and nothing
\* is sent downstream: every adapter call waits on the work channel until its
\* context is done and returns the context error, and RoundTrip succeeds only
\* with a response the middleware made without the result of any sub-request.
C38_NoWorkers ==
    parallelism <= 0 =>
        /\ Workers = {}
        /\ InFlight = 0
        /\ BlockedOnOffer
        /\ Succeeded => \A s \in Subs : cret[s] \in {None, CtxErr}

\* without workers a sub-request ended with the context error and RoundTrip
\* returned the response the middleware made all the same
C38_Witness ==
    /\ parallelism <= 0
    /\ pc \notin {"decode", "tenant", "spawn"}
    /\ Succeeded
    /\ \E s \in Subs : cst[s] = "returned" /\ cret[s] = CtxErr

\* ----------------------------------------------------------------- C39
\* worker w takes the work item of adapter call s in this step
Accepts(w, s) == wwork[w] = None /\ wwork'[w] # None /\ wwork'[w].req = s

\* worker w enters next.RoundTrip for adapter call s in this step
Dispatches(w, s) ==
    wpc[w] # "roundtrip" /\ wpc'[w] = "roundtrip" /\ wwork[w].req = s

\* the work item of s was taken before: a worker has it, or its result exists
Taken(s) ==
    \/ \E w \in Workers : wwork[w] # None /\ wwork[w].req = s
    \/ resultCh[newWork(s, s).result] # << >>
    \/ cret[s].kind = "result"

\* The claim as stated: a work item is taken once, from an adapter call whose
\* context has not fired, and is sent downstream once.
C39_Original ==
    [][\A w \in Workers, s \in Subs :
         /\ Accepts(w, s) =>
               /\ ~Taken(s)
               /\ \A v \in Workers \ {w} : ~Accepts(v, s)
               /\ ~fired[s]
         /\ Dispatches(w, s) =>
               /\ \A v \in Workers \ {w} : wwork[v] = None \/ wwork[v].req # s
               /\ resultCh[newWork(s, s).result] = << >>
               /\ cret[s].kind # "result"]_vars

\* C39: an adapter call causes at most one transport call: its work item is
\* taken by one worker at most, while the call is in its first select, and is
\* sent downstream once; the work item of a call that has returned the
\* context error before a worker took it is never sent downstream.
C39_DispatchedOnce ==
    [][\A w \in Workers, s \in Subs :
         /\ Accepts(w, s) =>
               /\ ~Taken(s)
               /\ \A v \in Workers \ {w} : ~Accepts(v, s)
               /\ cst[s] \in {"offer", "offerParked"}
         /\ Dispatches(w, s) =>
               /\ \A v \in Workers \ {w} : wwork[v] = None \/ wwork[v].req # s
               /\ resultCh[newWork(s, s).result] = << >>
               /\ cret[s].kind # "result"]_vars

\* one call returned the context error with no worker involved, the other
\* one got the response of its one transport call
C39_Witness ==
    \E s, u \in Subs :
        /\ cst[s] = "returned" /\ cret[s] = CtxErr /\ ~Taken(s)
        /\ cst[u] = "returned" /\ cret[u] = Result(u, "Response")
        /\ \A w \in Workers : wwork[w] = None

\* ----------------------------------------------------------------- C40
\* C40: on a limiter shared by concurrent sub-requests, a call that passed
\* the pre-check goes on to the next handler and to its insertion although
\* the set has grown over max_series meanwhile; its check after the insertion
\* returns TooManySeries whenever the shared set then holds more than
\* max_series fingerprints, also when its own response added none; and no
\* call returns a metric response while the set holds more than max_series
\* at that check.
C40_SharedLimiter ==
    [][\A d \in Calls :
         /\ (dpc[d] = "next" /\ dpc'[d] # "next") =>
               /\ dres'[d] \in NextResults
               /\ dres'[d].kind = "prom" => dpc'[d] = "insert"
               /\ dres'[d].kind # "prom" => dret'[d] = PassedThrough(dres'[d])
         /\ (dpc[d] = "insert" /\ dpc'[d] # "insert") => dpc'[d] = "postcheck"
         /\ (dpc[d] = "postcheck" /\ dpc'[d] = "done") =>
               IF Cardinality(hashes[dlim[d]]) > maxSeries
               THEN dret'[d] = Rejection
               ELSE dret'[d] = [res |-> dres[d], err |-> None]]_vars

\* a call was rejected after the insertion although its own response added
\* no series: another call on the limiter had taken the set over the limit
\* while it was in flight
C40_Witness ==
    \E d, e \in Calls :
        /\ d # e
        /\ dlim[d] = dlim[e]
        /\ dpc[d] = "done"
        /\ dres[d] = [kind |-> "prom", result |-> << >>]
        /\ dret[d] = Rejection
        /\ dres[e] # None /\ dres[e].kind = "prom"
        /\ Len(dres[e].result) > 0

TypeOK ==
    /\ pc \in {"decode", "tenant", "spawn", "handler", "wait", "returned"}
    /\ \A w \in Workers : wstate[w] \in {"Idle", "Dispatching", "Exiting"}
    /\ \A s \in Subs : Len(resultCh[s]) <= ResultCap
====
